---- MODULE Spec2Model ----
(***************************************************************************)
(* Model of HotSpot's LinkResolver (interpreter/linkResolver.cpp): method  *)
(* resolution, the invoke kinds (static, special, virtual, interface,      *)
(* handle, dynamic) and the call-site cache of invokedynamic.              *)
(*                                                                         *)
(* The class hierarchy the resolver reads (instanceKlass) is a fixed       *)
(* universe of klasses, methods and loaders given below; the resolver's    *)
(* inputs are drawn from it.                                               *)
(***************************************************************************)
EXTENDS Integers, Sequences, FiniteSets, TLC

VARIABLES
  init_state,   \* instanceKlass::_init_state of the klasses not yet initialized at start
  cp_cache,     \* the constant pool cache: per entry, the method resolved for it
  call,         \* the resolution in progress: the entry point and its arguments
  returned,     \* what that resolution returned: pending exception and CallInfo
  f1,           \* per invokedynamic site: what its cache entry is bound to (NULL: unbound)
  thread,       \* per thread: where it is in resolve_invokedynamic, and what it holds
  bootstrap_calls,  \* per site: how often the bootstrap up-call was made for it
  calls_begun,  \* how many resolve_invokedynamic calls have begun
  init_thread,  \* instanceKlass::_init_thread: the thread initializing the klass, or NULL
  clinit_runs,  \* per klass: how often its static initializer was started
  ithread,      \* per thread: where it is in a resolve_static_call that initializes
  dep_list,     \* the dependency list of one class loader: its nodes (class_loader, next)
  adder,        \* per thread: where it is in ClassLoaderDependencies::add, and what it holds
  dep_calls     \* the record_dependency calls begun, and the dependencies whose add returned

vars ==
  <<init_state, cp_cache, call, returned, f1, thread, bootstrap_calls, calls_begun,
    init_thread, clinit_runs, ithread, dep_list, adder, dep_calls>>

NULL == "null"

----------------------------------------------------------------------------
(* methodOopDesc::VtableIndexFlag, as linkResolver.cpp uses it.            *)
nonvirtual_vtable_index == -2
invalid_vtable_index == -4

(* vmIntrinsics::ID values the resolver distinguishes.                     *)
IID_none == "_none"
IID_invokeBasic == "_invokeBasic"
IID_invokeGeneric == "_invokeGeneric"
IID_linkToStatic == "_linkToStatic"

----------------------------------------------------------------------------
(* The klasses: instanceKlass / arrayKlass records.                        *)
(*   super, is_interface, oop_is_array, class_loader, package,             *)
(*   local_interfaces (in declared order), is_abstract, is_super (the      *)
(*   ACC_SUPER flag).                                                      *)

KlassRec(sup, itf, arr, ldr, pkg, locals, abs, accSuper) ==
  [super |-> sup, is_interface |-> itf, oop_is_array |-> arr, class_loader |-> ldr,
   package |-> pkg, local_interfaces |-> locals, is_abstract |-> abs, is_super |-> accSuper]

Klasses ==
  [ Object       |-> KlassRec(NULL,     FALSE, FALSE, "L0", "java.lang",        << >>,               FALSE, TRUE),
    MethodHandle |-> KlassRec("Object", FALSE, FALSE, "L0", "java.lang.invoke", << >>,               TRUE,  TRUE),
    LambdaForm   |-> KlassRec("Object", FALSE, FALSE, "L0", "java.lang.invoke", << >>,               FALSE, TRUE),
    Marker       |-> KlassRec("Object", TRUE,  FALSE, "L0", "java.lang",        << >>,               TRUE,  FALSE),
    ObjArr       |-> KlassRec("Object", FALSE, TRUE,  "L0", "java.lang",        <<"Marker">>,        FALSE, FALSE),
    Shape        |-> KlassRec("Object", TRUE,  FALSE, "L1", "geo",              << >>,               TRUE,  FALSE),
    Solid        |-> KlassRec("Object", TRUE,  FALSE, "L1", "geo",              << >>,               TRUE,  FALSE),
    Base         |-> KlassRec("Object", FALSE, FALSE, "L3", "geo",              <<"Shape">>,         FALSE, TRUE),
    Circle       |-> KlassRec("Base",   FALSE, FALSE, "L1", "geo",              << >>,               FALSE, TRUE),
    Multi        |-> KlassRec("Object", FALSE, FALSE, "L1", "geo",              <<"Solid", "Shape">>, TRUE,  TRUE),
    Ring         |-> KlassRec("Circle", FALSE, FALSE, "L1", "geo",              <<"Solid">>,         FALSE, FALSE),
    Impl         |-> KlassRec("Multi",  FALSE, FALSE, "L1", "geo",              << >>,               FALSE, TRUE),
    Sneaky       |-> KlassRec("Object", FALSE, FALSE, "L1", "geo",              <<"Shape">>,         FALSE, TRUE),
    Other        |-> KlassRec("Object", FALSE, FALSE, "L2", "misc",             << >>,               FALSE, FALSE) ]

KlassNames == DOMAIN Klasses

Loaders == {"L0", "L1", "L2", "L3"}

(* Klass::super() *)
super(k) == Klasses[k].super

(* instanceKlass::class_loader() *)
class_loader(k) == Klasses[k].class_loader

(* instanceKlass::local_interfaces() *)
local_interfaces(k) == Klasses[k].local_interfaces

----------------------------------------------------------------------------
(* The methods: methodOop records.                                         *)
(*   method_holder, name, signature, access flags, vtable_index,           *)
(*   intrinsic_id.  A signature is the sequence of its parameter types     *)
(*   followed by its return type; "I", "D", "V" are primitive, every other *)
(*   token names a class ("O" is java.lang.Object, "[O" an array of it).   *)

MethodRec(h, n, s, f, v, iid) ==
  [method_holder |-> h, name |-> n, signature |-> s, flags |-> f,
   vtable_index |-> v, intrinsic_id |-> iid]

Methods ==
  [ Object_clone  |-> MethodRec("Object", "clone",  <<"O">>,  {"protected"},           0, IID_none),
    Object_hash   |-> MethodRec("Object", "hash",   <<"I">>,  {"public"},              1, IID_none),
    Object_eq     |-> MethodRec("Object", "eq",     <<"O", "I">>, {"public"},              2, IID_none),
    Object_reg    |-> MethodRec("Object", "reg",    <<"V">>,  {"private", "static"},   nonvirtual_vtable_index, IID_none),
    Object_init   |-> MethodRec("Object", "<init>", <<"V">>,  {"public"},              nonvirtual_vtable_index, IID_none),
    MH_invokeBasic |-> MethodRec("MethodHandle", "invokeBasic", <<"[O", "O">>, {"final", "native"}, nonvirtual_vtable_index, IID_invokeBasic),
    MH_invoke     |-> MethodRec("MethodHandle", "invoke", <<"[O", "O">>, {"public", "final", "native"}, nonvirtual_vtable_index, IID_invokeGeneric),
    MH_type       |-> MethodRec("MethodHandle", "type",   <<"O">>,  {"public"},        3, IID_none),
    MH_basic_OO   |-> MethodRec("MethodHandle", "invokeBasic", <<"O", "O">>, {"public", "final", "native"}, nonvirtual_vtable_index, IID_invokeBasic),
    MH_basic_OIO  |-> MethodRec("MethodHandle", "invokeBasic", <<"O", "I", "O">>, {"public", "final", "native"}, nonvirtual_vtable_index, IID_invokeBasic),
    MH_linkToStatic_OTV |-> MethodRec("MethodHandle", "linkToStatic", <<"O", "T", "V">>, {"public", "static", "final", "native"}, nonvirtual_vtable_index, IID_linkToStatic),
    LF_invoker    |-> MethodRec("LambdaForm", "invokeExact_MT", <<"O", "O", "O", "O">>, {"static", "lambda_form"}, nonvirtual_vtable_index, IID_none),
    LF_linker     |-> MethodRec("LambdaForm", "linkToCallSite", <<"O", "O", "O">>, {"static", "lambda_form"}, nonvirtual_vtable_index, IID_none),
    LF_linker2    |-> MethodRec("LambdaForm", "linkToCallSite", <<"O", "I", "O">>, {"static", "lambda_form"}, nonvirtual_vtable_index, IID_none),
    Marker_mark   |-> MethodRec("Marker", "mark",   <<"V">>,  {"public", "abstract"},  invalid_vtable_index, IID_none),
    Shape_area    |-> MethodRec("Shape",  "area",   <<"D">>,  {"public", "abstract"},  invalid_vtable_index, IID_none),
    Shape_use     |-> MethodRec("Shape",  "use",    <<"T", "V">>, {"public", "abstract"},  invalid_vtable_index, IID_none),
    Solid_area    |-> MethodRec("Solid",  "area",   <<"D">>,  {"public", "abstract"},  invalid_vtable_index, IID_none),
    Base_area     |-> MethodRec("Base",   "area",   <<"D">>,  {"public"},              3, IID_none),
    Base_use      |-> MethodRec("Base",   "use",    <<"T", "V">>, {"public"},              4, IID_none),
    Base_areaT    |-> MethodRec("Base",   "area",   <<"T", "V">>, {"protected"},           5, IID_none),
    Base_id       |-> MethodRec("Base",   "id",     <<"I">>,  {"public", "final"},     nonvirtual_vtable_index, IID_none),
    Base_pk       |-> MethodRec("Base",   "pk",     <<"V">>,  {},                      6, IID_none),
    Base_priv     |-> MethodRec("Base",   "priv",   <<"V">>,  {"private"},             nonvirtual_vtable_index, IID_none),
    Base_make     |-> MethodRec("Base",   "make",   <<"O">>,  {"public", "static"},    nonvirtual_vtable_index, IID_none),
    Base_init     |-> MethodRec("Base",   "<init>", <<"V">>,  {"public"},              nonvirtual_vtable_index, IID_none),
    Circle_area   |-> MethodRec("Circle", "area",   <<"D">>,  {"public"},              3, IID_none),
    Circle_hash   |-> MethodRec("Circle", "hash",   <<"I">>,  {"public"},              1, IID_none),
    Circle_id     |-> MethodRec("Circle", "id",     <<"I">>,  {"public", "static"},    nonvirtual_vtable_index, IID_none),
    Circle_make   |-> MethodRec("Circle", "make",   <<"T", "O">>, {"public", "static"},    nonvirtual_vtable_index, IID_none),
    Impl_area     |-> MethodRec("Impl",   "area",   <<"D">>,  {"public"},              3, IID_none),
    Impl_use      |-> MethodRec("Impl",   "use",    <<"T", "V">>, {"public"},  4, IID_none),
    Sneaky_area   |-> MethodRec("Sneaky", "area",   <<"D">>,  {"abstract"},            3, IID_none),
    Sneaky_use    |-> MethodRec("Sneaky", "use",    <<"T", "V">>, {"public", "static"},    nonvirtual_vtable_index, IID_none),
    Other_area    |-> MethodRec("Other",  "area",   <<"D">>,  {"public"},              3, IID_none),
    Other_make    |-> MethodRec("Other",  "make",   <<"O">>,  {"public"},              4, IID_none) ]

MethodIds == DOMAIN Methods

(* The synthetic methods SystemDictionary keeps in its intrinsic table:    *)
(* they name MethodHandle as holder but are not in its methods array.      *)
IntrinsicTable == {"MH_basic_OO", "MH_basic_OIO", "MH_linkToStatic_OTV"}

(* instanceKlass::methods(): the methods a klass declares, as ids.         *)
methods(k) == {m \in MethodIds \ IntrinsicTable : Methods[m].method_holder = k}

(* methodOopDesc accessors *)
method_holder(m) == Methods[m].method_holder
name(m) == Methods[m].name
signature(m) == Methods[m].signature
vtable_index(m) == Methods[m].vtable_index
intrinsic_id(m) == Methods[m].intrinsic_id
is_static(m) == "static" \in Methods[m].flags
is_abstract(m) == "abstract" \in Methods[m].flags
is_public(m) == "public" \in Methods[m].flags
is_compiled_lambda_form(m) == "lambda_form" \in Methods[m].flags


----------------------------------------------------------------------------
(* The fields: fieldDescriptor records (field_holder, name, signature,     *)
(* access flags).  A field's signature is the one token of its type.       *)

FieldRec(h, n, s, f) == [field_holder |-> h, name |-> n, signature |-> s, flags |-> f]

Fields ==
  [ Base_count  |-> FieldRec("Base",  "count",  <<"I">>, {"public", "static"}),
    Base_item   |-> FieldRec("Base",  "item",   <<"T">>, {"public"}),
    Base_limit  |-> FieldRec("Base",  "limit",  <<"I">>, {"public", "final"}),
    Base_secret |-> FieldRec("Base",  "secret", <<"T">>, {"private"}),
    Base_guard  |-> FieldRec("Base",  "guard",  <<"I">>, {"protected"}),
    Base_shared |-> FieldRec("Base",  "shared", <<"T">>, {"public", "static"}),
    Shape_UNIT  |-> FieldRec("Shape", "UNIT",   <<"I">>, {"public", "static", "final"}),
    Solid_count |-> FieldRec("Solid", "count",  <<"I">>, {"public", "static", "final"}) ]

FieldIds == DOMAIN Fields

----------------------------------------------------------------------------
(* Hierarchy queries of Klass / instanceKlass.                             *)

(* The one element of a one-element set: binds an intermediate result to   *)
(* a name, as a local variable of the C++ code does.                       *)
Only(S) == CHOOSE x \in S : TRUE

RECURSIVE is_subclass_of(_, _)
(* Klass::is_subclass_of: k is c or has c on its superclass chain.         *)
is_subclass_of(k, c) ==
  IF k = NULL THEN FALSE
  ELSE IF k = c THEN TRUE
  ELSE is_subclass_of(super(k), c)

(* s followed by the elements of t that s does not hold yet.               *)
RECURSIVE AppendNew(_, _)
AppendNew(s, t) ==
  IF t = << >> THEN s
  ELSE AppendNew(IF \E i \in 1..Len(s) : s[i] = Head(t) THEN s ELSE Append(s, Head(t)),
                 Tail(t))

RECURSIVE transitive_interfaces(_)
RECURSIVE SuperInterfacesOfLocals(_)
(* The transitive interfaces of the local interfaces, in declared order.   *)
SuperInterfacesOfLocals(locals) ==
  IF locals = << >> THEN << >>
  ELSE AppendNew(transitive_interfaces(Head(locals)), SuperInterfacesOfLocals(Tail(locals)))

(* instanceKlass::transitive_interfaces(), as the class file parser lays   *)
(* the array out: the superclass's transitive interfaces, then those of    *)
(* the local interfaces, then the local interfaces in declared order.      *)
transitive_interfaces(k) ==
  IF k = NULL THEN << >>
  ELSE AppendNew(AppendNew(transitive_interfaces(super(k)),
                           SuperInterfacesOfLocals(local_interfaces(k))),
                 local_interfaces(k))

(* Klass::is_subtype_of: subclass, or implements the interface.            *)
is_subtype_of(k, c) ==
  \/ is_subclass_of(k, c)
  \/ \E ifs \in {transitive_interfaces(k)} : \E i \in 1..Len(ifs) : ifs[i] = c

(* instanceKlass::find_method: the local method with that name and         *)
(* signature, or NULL.                                                     *)
find_method(k, n, sig) ==
  Only({ IF found = {} THEN NULL ELSE CHOOSE m \in found : TRUE :
         found \in {{m \in MethodIds \ IntrinsicTable :
                       /\ Methods[m].method_holder = k
                       /\ Methods[m].name = n
                       /\ Methods[m].signature = sig}} })

RECURSIVE uncached_lookup_method(_, _, _)
(* instanceKlass::uncached_lookup_method: walk klass, super, ... and       *)
(* return the first local match (static methods included).                 *)
uncached_lookup_method(k, n, sig) ==
  IF k = NULL THEN NULL
  ELSE Only({ IF m # NULL THEN m ELSE uncached_lookup_method(super(k), n, sig) :
              m \in {find_method(k, n, sig)} })

RECURSIVE FirstInInterfaces(_, _, _)
FirstInInterfaces(ifs, n, sig) ==
  IF ifs = << >> THEN NULL
  ELSE Only({ IF m # NULL THEN m ELSE FirstInInterfaces(Tail(ifs), n, sig) :
              m \in {uncached_lookup_method(Head(ifs), n, sig)} })

(* instanceKlass::lookup_method_in_all_interfaces: the first match in the  *)
(* traversal order of the transitive interfaces.                           *)
lookup_method_in_all_interfaces(k, n, sig) ==
  FirstInInterfaces(transitive_interfaces(k), n, sig)

(* The local field of a klass with that name and signature, or NULL.       *)
find_local_field(k, n, sig) ==
  Only({ IF found = {} THEN NULL ELSE CHOOSE f \in found : TRUE :
         found \in {{f \in FieldIds : /\ Fields[f].field_holder = k
                                      /\ Fields[f].name = n
                                      /\ Fields[f].signature = sig}} })

RECURSIVE find_field(_, _, _)
RECURSIVE find_interface_field(_, _, _)
(* instanceKlass::find_interface_field: the direct superinterfaces in      *)
(* declared order, each with its own superinterfaces.                      *)
find_interface_field(locals, n, sig) ==
  IF locals = << >> THEN NULL
  ELSE Only({ IF f # NULL THEN f ELSE find_interface_field(Tail(locals), n, sig) :
              f \in {find_field(Head(locals), n, sig)} })

(* A faulty find_field: the superclass is searched before the direct       *)
(* superinterfaces.                                                        *)
find_field_superclass_first(k, n, sig) ==
  IF k = NULL THEN NULL
  ELSE Only({ IF own # NULL THEN own
              ELSE Only({ IF inherited # NULL THEN inherited
                          ELSE find_interface_field(local_interfaces(k), n, sig) :
                          inherited \in {find_field(super(k), n, sig)} }) :
              own \in {find_local_field(k, n, sig)} })

(* instanceKlass::find_field: the klass itself, then its direct            *)
(* superinterfaces recursively, then its superclass.  Yields the field     *)
(* found (its holder is the klass the C++ returns) or NULL.                *)
find_field(k, n, sig) ==
  IF k = NULL THEN NULL
  ELSE Only({ IF own # NULL THEN own
              ELSE Only({ IF inherited # NULL THEN inherited
                          ELSE find_field(super(k), n, sig) :
                          inherited \in {find_interface_field(local_interfaces(k), n, sig)} }) :
              own \in {find_local_field(k, n, sig)} })
----------------------------------------------------------------------------
(* Dispatch tables, laid out by the class linker (klassVtable): slot i of  *)
(* a klass's vtable is element i+1 of the sequence.  A subclass's vtable   *)
(* extends its superclass's; a miranda slot holds the interface method     *)
(* that no class of the chain implements.                                  *)

Vtables ==
  [ Object       |-> <<"Object_clone", "Object_hash", "Object_eq">>,
    MethodHandle |-> <<"Object_clone", "Object_hash", "Object_eq", "MH_type">>,
    LambdaForm   |-> <<"Object_clone", "Object_hash", "Object_eq">>,
    Marker       |-> <<"Object_clone", "Object_hash", "Object_eq">>,
    ObjArr       |-> <<"Object_clone", "Object_hash", "Object_eq">>,
    Shape        |-> <<"Object_clone", "Object_hash", "Object_eq">>,
    Solid        |-> <<"Object_clone", "Object_hash", "Object_eq">>,
    Base         |-> <<"Object_clone", "Object_hash", "Object_eq", "Base_area", "Base_use", "Base_areaT", "Base_pk">>,
    Circle       |-> <<"Object_clone", "Circle_hash", "Object_eq", "Circle_area", "Base_use", "Base_areaT", "Base_pk">>,
    Ring         |-> <<"Object_clone", "Circle_hash", "Object_eq", "Circle_area", "Base_use", "Base_areaT", "Base_pk">>,
    Multi        |-> <<"Object_clone", "Object_hash", "Object_eq", "Solid_area", "Shape_use">>,
    Impl         |-> <<"Object_clone", "Object_hash", "Object_eq", "Impl_area", "Impl_use">>,
    Sneaky       |-> <<"Object_clone", "Object_hash", "Object_eq", "Sneaky_area">>,
    Other        |-> <<"Object_clone", "Object_hash", "Object_eq", "Other_area", "Other_make">> ]

(* instanceKlass::vtable_length() *)
vtable_length(k) == Len(Vtables[k])

(* A faulty method_at_vtable: it reads the slot before the one asked for.  *)
method_at_vtable_slot_before(k, index) ==
  IF index >= 1 /\ index < vtable_length(k) THEN Vtables[k][index]
  ELSE IF index = 0 /\ vtable_length(k) > 0 THEN Vtables[k][1]
  ELSE "garbage"

(* instanceKlass::method_at_vtable(index): ve[index].method().  A read     *)
(* past the table's end yields whatever follows the table in memory.       *)
method_at_vtable(k, index) ==
  IF index >= 0 /\ index < vtable_length(k) THEN Vtables[k][index + 1] ELSE "garbage"

(* klassVtable::index_of_miranda: the slot of the klass's vtable that holds *)
(* a miranda method with that name and signature, else the invalid index.  *)
index_of_miranda(k, n, sig) ==
  Only({ IF hit = {} THEN invalid_vtable_index ELSE CHOOSE i \in hit : TRUE :
         hit \in {{i \in 0..(vtable_length(k) - 1) :
                     \E m \in {Vtables[k][i + 1]} :
                       /\ Klasses[method_holder(m)].is_interface
                       /\ name(m) = n /\ signature(m) = sig}} })

----------------------------------------------------------------------------
(* Signature-polymorphic methods (MethodHandles).                          *)

(* MethodHandles::signature_polymorphic_name_id *)
signature_polymorphic_name_id(n) ==
  CASE n = "invokeBasic" -> IID_invokeBasic
    [] n = "invoke" -> IID_invokeGeneric
    [] n = "invokeExact" -> IID_invokeGeneric
    [] n = "linkToStatic" -> IID_linkToStatic
    [] OTHER -> IID_none

(* MethodHandles::is_signature_polymorphic *)
is_signature_polymorphic(iid) == iid \in {IID_invokeBasic, IID_invokeGeneric, IID_linkToStatic}

(* MethodHandles::is_signature_polymorphic_intrinsic *)
is_signature_polymorphic_intrinsic(iid) == iid \in {IID_invokeBasic, IID_linkToStatic}

(* MethodHandles::is_signature_polymorphic_static *)
is_signature_polymorphic_static(iid) == iid = IID_linkToStatic

IsPrimitive(t) == t \in {"I", "D", "V"}

(* MethodHandles::lookup_basic_type_signature: every reference type of the *)
(* signature becomes java.lang.Object ("O"), primitives stay; with         *)
(* keep_last_arg the last parameter is left as it is.                      *)
lookup_basic_type_signature(sig, keep_last_arg) ==
  [i \in 1..Len(sig) |->
     IF IsPrimitive(sig[i]) THEN sig[i]
     ELSE IF keep_last_arg /\ i = Len(sig) - 1 THEN sig[i]
     ELSE "O"]

(* SystemDictionary::find_method_handle_intrinsic: the entry of the        *)
(* process-wide intrinsic table for (iid, basic signature).                *)
find_method_handle_intrinsic(iid, basic_signature) ==
  Only({ IF found = {} THEN NULL ELSE CHOOSE m \in found : TRUE :
         found \in {{m \in IntrinsicTable :
                       /\ intrinsic_id(m) = iid
                       /\ signature(m) = basic_signature}} })

----------------------------------------------------------------------------
(* Class loaders and the system dictionary.                                *)

(* SystemDictionary: the class a loader resolves a type name to.  The name *)
(* T is defined independently by L1 and by L2; L3 delegates to L1 for it;  *)
(* L0 has no class of that name (NULL); every loader delegates             *)
(* java.lang.Object and its array to L0.                                   *)
dictionary(loader, type_name) ==
  IF type_name = "T"
  THEN CASE loader = "L1" -> "T@L1"
         [] loader = "L2" -> "T@L2"
         [] loader = "L3" -> "T@L1"
         [] OTHER -> NULL
  ELSE type_name

(* The class names a signature mentions: for a method all parameter types  *)
(* and the return type, for a field its one type.                          *)
SignatureTypes(sig) == {sig[i] : i \in {j \in 1..Len(sig) : ~IsPrimitive(sig[j])}}

(* SystemDictionary::check_signature_loaders: the name of a type of the    *)
(* signature that the two loaders resolve differently, or NULL.            *)
check_signature_loaders(sig, loader1, loader2) ==
  IF loader1 = loader2 THEN NULL
  ELSE Only({ IF failed = {} THEN NULL ELSE CHOOSE t \in failed : TRUE :
              failed \in {{t \in SignatureTypes(sig) :
                             \E c1 \in {dictionary(loader1, t)}, c2 \in {dictionary(loader2, t)} :
                               c1 # NULL /\ c2 # NULL /\ c1 # c2}} })

(* instanceKlass::is_same_class_package: same package name, same loader.   *)
is_same_class_package(k1, k2) ==
  /\ Klasses[k1].package = Klasses[k2].package
  /\ class_loader(k1) = class_loader(k2)

(* Reflection::verify_field_access(current_class, resolved_class,          *)
(* field_class, access): may current_class use the member that field_class *)
(* declares, selected through resolved_class.                              *)
verify_field_access(current_class, resolved_class, field_class, flags) ==
  IF "public" \in flags THEN TRUE
  ELSE IF "protected" \in flags
  THEN /\ \/ is_same_class_package(current_class, field_class)
          \/ is_subtype_of(current_class, field_class)
       /\ \/ "static" \in flags
          \/ resolved_class = current_class
          \/ is_subtype_of(current_class, resolved_class)
  ELSE IF "private" \in flags
  THEN current_class = field_class
  ELSE is_same_class_package(current_class, field_class)


----------------------------------------------------------------------------
(* Exceptions, by the class linkResolver.cpp throws.                       *)

EXC_none == "none"
NoSuchMethodError == "java_lang_NoSuchMethodError"
NoSuchFieldError == "java_lang_NoSuchFieldError"
IncompatibleClassChangeError == "java_lang_IncompatibleClassChangeError"
AbstractMethodError == "java_lang_AbstractMethodError"
IllegalAccessError == "java_lang_IllegalAccessError"
LinkageError == "java_lang_LinkageError"
NullPointerException == "java_lang_NullPointerException"
InternalError == "java_lang_InternalError"
BootstrapMethodError == "java_lang_BootstrapMethodError"
(* The VM dereferences a null klass: no Java exception, the process dies.  *)
VMCrash == "vm_crash"

(* -XX:+EnableInvokeDynamic, the default. *)
EnableInvokeDynamic == TRUE
(* -XX:AllowNonVirtualCalls (off by default) is an input of the special   *)
(* call: the operators that read it take it as a parameter.                *)

(* The result of a lookup or resolution step: the pending exception, the   *)
(* method found, and the (referring klass, method) pairs for which         *)
(* check_method_loader_constraints was evaluated on the way.               *)
Found(m, checked) == [exc |-> EXC_none, method |-> m, lc_checked |-> checked]
Throw(e, checked) == [exc |-> e, method |-> NULL, lc_checked |-> checked]

(* LinkResolver::lookup_method_in_klasses *)
lookup_method_in_klasses(klass, method_name, method_signature) ==
  Only({ IF Klasses[klass].oop_is_array THEN result_oop
         ELSE IF /\ EnableInvokeDynamic
                 /\ result_oop # NULL
                 /\ is_signature_polymorphic(intrinsic_id(result_oop))
         THEN NULL
         ELSE result_oop :
         result_oop \in {uncached_lookup_method(klass, method_name, method_signature)} })

UNDEFINED == "undefined"

RECURSIVE SkipStatic(_, _, _)
(* The loop of lookup_instance_method_in_klasses: while the match is       *)
(* static, look again from the superclass of its holder.  The superclass   *)
(* of java.lang.Object is null and the loop dereferences it.               *)
SkipStatic(result, method_name, method_signature) ==
  IF result = NULL \/ ~is_static(result) THEN result
  ELSE Only({ IF super_klass = NULL THEN UNDEFINED
              ELSE SkipStatic(uncached_lookup_method(super_klass, method_name, method_signature),
                              method_name, method_signature) :
              super_klass \in {super(method_holder(result))} })

(* LinkResolver::lookup_instance_method_in_klasses *)
lookup_instance_method_in_klasses(klass, method_name, method_signature) ==
  SkipStatic(uncached_lookup_method(klass, method_name, method_signature),
             method_name, method_signature)

(* A faulty vtable_index_of_miranda_method: it answers the first slot.     *)
vtable_index_of_miranda_method_first_slot(klass, method_name, method_signature) == 0

(* LinkResolver::vtable_index_of_miranda_method *)
vtable_index_of_miranda_method(klass, method_name, method_signature) ==
  index_of_miranda(klass, method_name, method_signature)

(* A faulty lookup_method_in_interfaces: it walks the interfaces from the  *)
(* last one to the first.                                                  *)
lookup_method_in_interfaces_backwards(klass, method_name, method_signature) ==
  FirstInInterfaces([i \in 1..Len(transitive_interfaces(klass)) |->
                       transitive_interfaces(klass)[Len(transitive_interfaces(klass)) + 1 - i]],
                    method_name, method_signature)

(* LinkResolver::lookup_method_in_interfaces *)
lookup_method_in_interfaces(klass, method_name, method_signature) ==
  lookup_method_in_all_interfaces(klass, method_name, method_signature)

(* What a polymorphic lookup yields: the pending exception, the method,    *)
(* and the appendix and method type the Java up-call returned with it.     *)
Poly(e, m, appendix, method_type) ==
  [exc |-> e, method |-> m, appendix |-> appendix, method_type |-> method_type]

(* LinkResolver::lookup_polymorphic_method, called by a Java thread.       *)
(* has_appendix_result: appendix_result_or_null != NULL.  invoker: what    *)
(* SystemDictionary::find_method_handle_invoker (an up-call into Java)     *)
(* answers if it is asked.                                                 *)
lookup_polymorphic_method(klass, method_name, full_signature, has_appendix_result, invoker) ==
  \* iid: vmIntrinsics::ID of the name
  Only({ IF EnableInvokeDynamic /\ klass = "MethodHandle" /\ iid # IID_none
         THEN IF is_signature_polymorphic_intrinsic(iid)
              THEN Poly(EXC_none,
                        find_method_handle_intrinsic(
                          iid, lookup_basic_type_signature(full_signature,
                                                           is_signature_polymorphic_static(iid))),
                        NULL, NULL)
              ELSE IF iid = IID_invokeGeneric /\ has_appendix_result
              THEN IF invoker.exc # EXC_none THEN Poly(invoker.exc, NULL, NULL, NULL)
                   ELSE IF invoker.method # NULL
                   THEN Poly(EXC_none, invoker.method, invoker.appendix, invoker.method_type)
                   ELSE Poly(EXC_none, NULL, NULL, NULL)
              ELSE Poly(EXC_none, NULL, NULL, NULL)
         ELSE Poly(EXC_none, NULL, NULL, NULL) :
         iid \in {signature_polymorphic_name_id(method_name)} })

(* The up-call is not made: resolve_method passes no appendix pointer.     *)
NoInvoker == [exc |-> EXC_none, method |-> NULL, appendix |-> NULL, method_type |-> NULL]

(* A faulty check_method_accessability: the declared flags are used for    *)
(* every klass and method.                                                 *)
check_method_accessability_declared_flags(ref_klass, resolved_klass, sel_klass, sel_method) ==
  verify_field_access(ref_klass, resolved_klass, sel_klass, Methods[sel_method].flags)

(* LinkResolver::check_method_accessability: TRUE when the access is       *)
(* allowed (no IllegalAccessError).  Arrays see Object.clone as public.    *)
check_method_accessability(ref_klass, resolved_klass, sel_klass, sel_method) ==
  \E flags \in {Methods[sel_method].flags} :
    verify_field_access(ref_klass, resolved_klass, sel_klass,
                        IF /\ name(sel_method) = "clone"
                           /\ sel_klass = "Object"
                           /\ Klasses[resolved_klass].oop_is_array
                        THEN (flags \ {"protected"}) \cup {"public"}
                        ELSE flags)

(* A faulty check_method_loader_constraints: it takes the loader of the    *)
(* current klass for the holder's loader too.                              *)
check_method_loader_constraints_one_loader(resolved_method, method_signature, current_klass) ==
  check_signature_loaders(method_signature, class_loader(current_klass),
                          class_loader(current_klass)) = NULL

(* LinkResolver::check_method_loader_constraints: TRUE when no type of the *)
(* signature is resolved differently by the loader of the current klass    *)
(* and the loader of the method's holder (no LinkageError).                *)
check_method_loader_constraints(resolved_method, method_signature, current_klass) ==
  check_signature_loaders(method_signature, class_loader(current_klass),
                          class_loader(method_holder(resolved_method))) = NULL

(* A faulty end of resolve_method: the access check is made, the loader    *)
(* constraints are not.                                                    *)
CheckResolved_without_constraints(resolved_method, resolved_klass, method_signature, current_klass, check_access) ==
  IF is_abstract(resolved_method) /\ ~Klasses[resolved_klass].is_abstract
  THEN Throw(AbstractMethodError, {})
  ELSE IF ~check_access THEN Found(resolved_method, {})
  ELSE IF ~check_method_accessability(current_klass, resolved_klass,
                                      method_holder(resolved_method), resolved_method)
  THEN Throw(IllegalAccessError, {})
  ELSE Found(resolved_method, {})

(* Steps 5 and 6 of resolve_method, on the method the lookup found.        *)
CheckResolved(resolved_method, resolved_klass, method_signature, current_klass, check_access) ==
  IF is_abstract(resolved_method) /\ ~Klasses[resolved_klass].is_abstract
  THEN Throw(AbstractMethodError, {})
  ELSE IF ~check_access THEN Found(resolved_method, {})
  ELSE IF ~check_method_accessability(current_klass, resolved_klass,
                                      method_holder(resolved_method), resolved_method)
  THEN Throw(IllegalAccessError, {})
  ELSE IF ~check_method_loader_constraints(resolved_method, method_signature, current_klass)
  THEN Throw(LinkageError, {<<current_klass, resolved_method>>})
  ELSE Found(resolved_method, {<<current_klass, resolved_method>>})

(* A faulty lookup: the interfaces of an array klass are searched as those *)
(* of any other klass.                                                     *)
LookupBeyondKlasses_arrays_too(in_klasses, resolved_klass, method_name, method_signature) ==
  IF in_klasses # NULL THEN in_klasses
  ELSE Only({ IF in_interfaces # NULL THEN in_interfaces
              ELSE lookup_polymorphic_method(resolved_klass, method_name, method_signature,
                                             FALSE, NoInvoker).method :
              in_interfaces \in {lookup_method_in_interfaces(resolved_klass, method_name,
                                                             method_signature)} })

(* A faulty lookup: the interfaces are searched first and the class chain  *)
(* only counts when they declare nothing.                                  *)
LookupBeyondKlasses_interfaces_first(in_klasses, resolved_klass, method_name, method_signature) ==
  IF Klasses[resolved_klass].oop_is_array THEN in_klasses
  ELSE Only({ IF in_interfaces # NULL THEN in_interfaces
              ELSE IF in_klasses # NULL THEN in_klasses
              ELSE lookup_polymorphic_method(resolved_klass, method_name, method_signature,
                                             FALSE, NoInvoker).method :
              in_interfaces \in {lookup_method_in_interfaces(resolved_klass, method_name,
                                                             method_signature)} })

(* The lookup of resolve_method once the class chain has been searched:    *)
(* (not for arrays) the interfaces, then the signature-polymorphic methods.*)
LookupBeyondKlasses(in_klasses, resolved_klass, method_name, method_signature) ==
  IF in_klasses # NULL \/ Klasses[resolved_klass].oop_is_array THEN in_klasses
  ELSE Only({ IF in_interfaces # NULL THEN in_interfaces
              ELSE lookup_polymorphic_method(resolved_klass, method_name, method_signature,
                                             FALSE, NoInvoker).method :
              in_interfaces \in {lookup_method_in_interfaces(resolved_klass, method_name,
                                                             method_signature)} })

(* Steps 2 and 3 of resolve_method.                                        *)
LookupForResolve(resolved_klass, method_name, method_signature) ==
  LookupBeyondKlasses(lookup_method_in_klasses(resolved_klass, method_name, method_signature),
                      resolved_klass, method_name, method_signature)

(* LinkResolver::resolve_method *)
resolve_method(resolved_klass, method_name, method_signature, current_klass, check_access) ==
  IF Klasses[resolved_klass].is_interface THEN Throw(IncompatibleClassChangeError, {})
  ELSE Only({ IF resolved_method = NULL THEN Throw(NoSuchMethodError, {})
              ELSE CheckResolved(resolved_method, resolved_klass, method_signature,
                                 current_klass, check_access) :
              resolved_method \in {LookupForResolve(resolved_klass, method_name,
                                                    method_signature)} })

(* The tail of resolve_interface_method, on what the class chain gave.     *)
CheckInterfaceResolved(in_klasses, resolved_method, method_signature, current_klass, check_access) ==
  IF in_klasses = UNDEFINED THEN Throw(VMCrash, {})
  ELSE IF resolved_method = NULL THEN Throw(NoSuchMethodError, {})
  ELSE IF ~check_access THEN Found(resolved_method, {})
  ELSE IF ~check_method_loader_constraints(resolved_method, method_signature, current_klass)
  THEN Throw(LinkageError, {<<current_klass, resolved_method>>})
  ELSE Found(resolved_method, {<<current_klass, resolved_method>>})

(* LinkResolver::resolve_interface_method *)
resolve_interface_method(resolved_klass, method_name, method_signature, current_klass, check_access) ==
  IF ~Klasses[resolved_klass].is_interface THEN Throw(IncompatibleClassChangeError, {})
  ELSE Only({ CheckInterfaceResolved(
                in_klasses,
                IF in_klasses = NULL /\ ~Klasses[resolved_klass].oop_is_array
                THEN lookup_method_in_interfaces(resolved_klass, method_name, method_signature)
                ELSE in_klasses,
                method_signature, current_klass, check_access) :
              in_klasses \in {lookup_instance_method_in_klasses(resolved_klass, method_name,
                                                                method_signature)} })

----------------------------------------------------------------------------
(* CallInfo                                                                *)

NoCallInfo ==
  [resolved_klass |-> NULL, selected_klass |-> NULL, resolved_method |-> NULL,
   selected_method |-> NULL, vtable_index |-> invalid_vtable_index,
   resolved_appendix |-> NULL, resolved_method_type |-> NULL]

(* CallInfo::set_common.  (Its forcing of a compilation under -Xcomp does  *)
(* not touch the CallInfo and is left out.)                                *)
set_common(resolved_klass, selected_klass, resolved_method, selected_method, index) ==
  [resolved_klass |-> resolved_klass, selected_klass |-> selected_klass,
   resolved_method |-> resolved_method, selected_method |-> selected_method,
   vtable_index |-> index, resolved_appendix |-> NULL, resolved_method_type |-> NULL]

(* CallInfo::set_static *)
set_static(resolved_klass, resolved_method) ==
  set_common(resolved_klass, resolved_klass, resolved_method, resolved_method,
             nonvirtual_vtable_index)

(* CallInfo::set_interface *)
set_interface(resolved_klass, selected_klass, resolved_method, selected_method) ==
  set_common(resolved_klass, selected_klass, resolved_method, selected_method,
             IF method_holder(resolved_method) = "Object"
             THEN vtable_index(resolved_method)
             ELSE invalid_vtable_index)

(* CallInfo::set_virtual *)
set_virtual(resolved_klass, selected_klass, resolved_method, selected_method, index) ==
  set_common(resolved_klass, selected_klass, resolved_method, selected_method, index)

(* CallInfo::set_handle, for a non-null resolved method.                   *)
set_handle(resolved_method, resolved_appendix, resolved_method_type) ==
  [set_common("MethodHandle", "MethodHandle", resolved_method, resolved_method,
              nonvirtual_vtable_index)
     EXCEPT !.resolved_appendix = resolved_appendix,
            !.resolved_method_type = resolved_method_type]

(* The outcome of one resolve_*_call: the pending exception, the CallInfo  *)
(* (NoCallInfo under an exception) and the loader-constraint checks made.  *)
Linked(info, checked) == [exc |-> EXC_none, info |-> info, lc_checked |-> checked]
Failed(e, checked) ==
  [exc |-> e,
   info |-> [resolved_klass |-> NULL, selected_klass |-> NULL, resolved_method |-> NULL,
             selected_method |-> NULL, vtable_index |-> invalid_vtable_index,
             resolved_appendix |-> NULL, resolved_method_type |-> NULL],
   lc_checked |-> checked]

----------------------------------------------------------------------------
(* Invoke resolution                                                       *)

(* A faulty linktime_resolve_static_method: it does not look at the        *)
(* method's static flag.                                                   *)
linktime_resolve_static_method_any_kind(resolved_klass, method_name, method_signature, current_klass, check_access) ==
  resolve_method(resolved_klass, method_name, method_signature, current_klass, check_access)

(* LinkResolver::linktime_resolve_static_method *)
linktime_resolve_static_method(resolved_klass, method_name, method_signature, current_klass, check_access) ==
  Only({ IF r.exc # EXC_none THEN r
         ELSE IF ~is_static(r.method) THEN Throw(IncompatibleClassChangeError, r.lc_checked)
         ELSE r :
         r \in {resolve_method(resolved_klass, method_name, method_signature,
                               current_klass, check_access)} })

(* LinkResolver::linktime_resolve_special_method *)
linktime_resolve_special_method(resolved_klass, method_name, method_signature, current_klass, check_access) ==
  Only({ IF r.exc # EXC_none THEN r
         ELSE IF name(r.method) = "<init>" /\ method_holder(r.method) # resolved_klass
         THEN Throw(NoSuchMethodError, r.lc_checked)
         ELSE IF is_static(r.method) THEN Throw(IncompatibleClassChangeError, r.lc_checked)
         ELSE r :
         r \in {resolve_method(resolved_klass, method_name, method_signature,
                               current_klass, check_access)} })

(* The tail of runtime_resolve_special_method on the selected method.      *)
(* looked_up: the method was looked up anew in the superclass chain.       *)
CheckSpecialSelected(sel_method, looked_up, resolved_method, resolved_klass, current_klass, checked) ==
  IF sel_method = UNDEFINED THEN Failed(VMCrash, checked)
  ELSE IF sel_method = NULL THEN Failed(AbstractMethodError, checked)
  ELSE IF looked_up /\ sel_method # resolved_method
  THEN \* check_method_loader_constraints for the newly selected method
       IF ~check_method_loader_constraints(sel_method, signature(sel_method), current_klass)
       THEN Failed(LinkageError, checked \cup {<<current_klass, sel_method>>})
       ELSE IF is_static(sel_method)
       THEN Failed(IncompatibleClassChangeError, checked \cup {<<current_klass, sel_method>>})
       ELSE IF is_abstract(sel_method)
       THEN Failed(AbstractMethodError, checked \cup {<<current_klass, sel_method>>})
       ELSE Linked(set_static(resolved_klass, sel_method),
                   checked \cup {<<current_klass, sel_method>>})
  ELSE IF is_static(sel_method) THEN Failed(IncompatibleClassChangeError, checked)
  ELSE IF is_abstract(sel_method) THEN Failed(AbstractMethodError, checked)
  ELSE Linked(set_static(resolved_klass, sel_method), checked)

(* A faulty runtime_resolve_special_method: the resolved method is always  *)
(* the selected one.                                                       *)
runtime_resolve_special_method_without_lookup(resolved_method, resolved_klass, current_klass, check_access, AllowNonVirtualCalls, checked) ==
  CheckSpecialSelected(resolved_method, FALSE, resolved_method, resolved_klass,
                       current_klass, checked)

(* LinkResolver::runtime_resolve_special_method *)
runtime_resolve_special_method(resolved_method, resolved_klass, current_klass, check_access, AllowNonVirtualCalls, checked) ==
  IF \E method_klass \in {method_holder(resolved_method)} :
       /\ check_access
       /\ (Klasses[current_klass].is_super \/ ~AllowNonVirtualCalls)
       /\ is_subtype_of(current_klass, method_klass)
       /\ current_klass # method_klass
       /\ name(resolved_method) # "<init>"
  THEN CheckSpecialSelected(
         lookup_instance_method_in_klasses(super(current_klass), name(resolved_method),
                                           signature(resolved_method)),
         TRUE, resolved_method, resolved_klass, current_klass, checked)
  ELSE CheckSpecialSelected(resolved_method, FALSE, resolved_method, resolved_klass,
                            current_klass, checked)

(* LinkResolver::resolve_special_call *)
resolve_special_call(resolved_klass, method_name, method_signature, current_klass, check_access, AllowNonVirtualCalls) ==
  Only({ IF r.exc # EXC_none THEN Failed(r.exc, r.lc_checked)
         ELSE runtime_resolve_special_method(r.method, resolved_klass, current_klass,
                                             check_access, AllowNonVirtualCalls, r.lc_checked) :
         r \in {linktime_resolve_special_method(resolved_klass, method_name, method_signature,
                                                current_klass, check_access)} })

(* LinkResolver::linktime_resolve_virtual_method *)
linktime_resolve_virtual_method(resolved_klass, method_name, method_signature, current_klass, check_access) ==
  Only({ IF r.exc # EXC_none THEN r
         ELSE IF is_static(r.method) THEN Throw(IncompatibleClassChangeError, r.lc_checked)
         ELSE r :
         r \in {resolve_method(resolved_klass, method_name, method_signature,
                               current_klass, check_access)} })

(* A faulty selection: the resolved method is taken as the selected one,   *)
(* whatever the receiver's vtable holds.                                   *)
SelectVirtual_without_dispatch(resolved_method, resolved_klass, recv_klass) ==
  [vtable_index |-> IF Klasses[method_holder(resolved_method)].is_interface
                    THEN vtable_index_of_miranda_method(resolved_klass, name(resolved_method),
                                                        signature(resolved_method))
                    ELSE vtable_index(resolved_method),
   selected_method |-> resolved_method]

(* The vtable lookup of runtime_resolve_virtual_method: the index and the  *)
(* method selected for the receiver klass.                                 *)
SelectVirtual(resolved_method, resolved_klass, recv_klass) ==
  Only({ IF index = nonvirtual_vtable_index
         THEN [vtable_index |-> index, selected_method |-> resolved_method]
         ELSE [vtable_index |-> index, selected_method |-> method_at_vtable(recv_klass, index)] :
         index \in {IF Klasses[method_holder(resolved_method)].is_interface
                    THEN vtable_index_of_miranda_method(resolved_klass, name(resolved_method),
                                                        signature(resolved_method))
                    ELSE vtable_index(resolved_method)} })

(* A faulty runtime_resolve_virtual_method: it rejects an abstract         *)
(* selected method whether or not the caller asked for the check.          *)
runtime_resolve_virtual_method_always_checking(resolved_method, resolved_klass, recv_is_null, recv_klass, check_null_and_abstract, checked) ==
  IF check_null_and_abstract /\ recv_is_null THEN Failed(NullPointerException, checked)
  ELSE Only({ IF sel.selected_method = NULL THEN Failed(AbstractMethodError, checked)
              ELSE IF is_abstract(sel.selected_method)
              THEN Failed(AbstractMethodError, checked)
              ELSE Linked(set_virtual(resolved_klass, recv_klass, resolved_method,
                                      sel.selected_method, sel.vtable_index), checked) :
              sel \in {SelectVirtual(resolved_method, resolved_klass, recv_klass)} })

(* LinkResolver::runtime_resolve_virtual_method *)
runtime_resolve_virtual_method(resolved_method, resolved_klass, recv_is_null, recv_klass, check_null_and_abstract, checked) ==
  IF check_null_and_abstract /\ recv_is_null THEN Failed(NullPointerException, checked)
  ELSE Only({ IF sel.selected_method = NULL THEN Failed(AbstractMethodError, checked)
              ELSE IF check_null_and_abstract /\ is_abstract(sel.selected_method)
              THEN Failed(AbstractMethodError, checked)
              ELSE Linked(set_virtual(resolved_klass, recv_klass, resolved_method,
                                      sel.selected_method, sel.vtable_index), checked) :
              sel \in {SelectVirtual(resolved_method, resolved_klass, recv_klass)} })

(* LinkResolver::resolve_virtual_call *)
resolve_virtual_call(recv_is_null, receiver_klass, resolved_klass, method_name, method_signature, current_klass, check_access, check_null_and_abstract) ==
  Only({ IF r.exc # EXC_none THEN Failed(r.exc, r.lc_checked)
         ELSE runtime_resolve_virtual_method(r.method, resolved_klass, recv_is_null,
                                             receiver_klass, check_null_and_abstract,
                                             r.lc_checked) :
         r \in {linktime_resolve_virtual_method(resolved_klass, method_name, method_signature,
                                                current_klass, check_access)} })

(* LinkResolver::linktime_resolve_interface_method *)
linktime_resolve_interface_method(resolved_klass, method_name, method_signature, current_klass, check_access) ==
  resolve_interface_method(resolved_klass, method_name, method_signature, current_klass, check_access)

(* A faulty runtime_resolve_interface_method: it does not check that the   *)
(* receiver's klass implements the interface.                              *)
runtime_resolve_interface_method_any_receiver(resolved_method, resolved_klass, recv_is_null, recv_klass, check_null_and_abstract, checked) ==
  IF check_null_and_abstract /\ recv_is_null THEN Failed(NullPointerException, checked)
  ELSE Only({ IF sel_method = UNDEFINED THEN Failed(VMCrash, checked)
              ELSE IF sel_method = NULL THEN Failed(AbstractMethodError, checked)
              ELSE IF ~is_public(sel_method) THEN Failed(IllegalAccessError, checked)
              ELSE IF check_null_and_abstract /\ is_abstract(sel_method)
              THEN Failed(AbstractMethodError, checked)
              ELSE Linked(set_interface(resolved_klass, recv_klass, resolved_method, sel_method),
                          checked) :
              sel_method \in {lookup_instance_method_in_klasses(recv_klass,
                                                                name(resolved_method),
                                                                signature(resolved_method))} })

(* A faulty runtime_resolve_interface_method: the abstract check is made   *)
(* before the public check.                                                *)
runtime_resolve_interface_method_abstract_first(resolved_method, resolved_klass, recv_is_null, recv_klass, check_null_and_abstract, checked) ==
  IF check_null_and_abstract /\ recv_is_null THEN Failed(NullPointerException, checked)
  ELSE IF ~is_subtype_of(recv_klass, resolved_klass)
  THEN Failed(IncompatibleClassChangeError, checked)
  ELSE Only({ IF sel_method = UNDEFINED THEN Failed(VMCrash, checked)
              ELSE IF sel_method = NULL THEN Failed(AbstractMethodError, checked)
              ELSE IF check_null_and_abstract /\ is_abstract(sel_method)
              THEN Failed(AbstractMethodError, checked)
              ELSE IF ~is_public(sel_method) THEN Failed(IllegalAccessError, checked)
              ELSE Linked(set_interface(resolved_klass, recv_klass, resolved_method, sel_method),
                          checked) :
              sel_method \in {lookup_instance_method_in_klasses(recv_klass,
                                                                name(resolved_method),
                                                                signature(resolved_method))} })

(* LinkResolver::runtime_resolve_interface_method *)
runtime_resolve_interface_method(resolved_method, resolved_klass, recv_is_null, recv_klass, check_null_and_abstract, checked) ==
  IF check_null_and_abstract /\ recv_is_null THEN Failed(NullPointerException, checked)
  ELSE IF ~is_subtype_of(recv_klass, resolved_klass)
  THEN Failed(IncompatibleClassChangeError, checked)
  ELSE Only({ IF sel_method = UNDEFINED THEN Failed(VMCrash, checked)
              ELSE IF sel_method = NULL THEN Failed(AbstractMethodError, checked)
              ELSE IF ~is_public(sel_method) THEN Failed(IllegalAccessError, checked)
              ELSE IF check_null_and_abstract /\ is_abstract(sel_method)
              THEN Failed(AbstractMethodError, checked)
              ELSE Linked(set_interface(resolved_klass, recv_klass, resolved_method, sel_method),
                          checked) :
              sel_method \in {lookup_instance_method_in_klasses(recv_klass,
                                                                name(resolved_method),
                                                                signature(resolved_method))} })

(* LinkResolver::resolve_interface_call *)
resolve_interface_call(recv_is_null, recv_klass, resolved_klass, method_name, method_signature, current_klass, check_access, check_null_and_abstract) ==
  Only({ IF r.exc # EXC_none THEN Failed(r.exc, r.lc_checked)
         ELSE runtime_resolve_interface_method(r.method, resolved_klass, recv_is_null,
                                               recv_klass, check_null_and_abstract,
                                               r.lc_checked) :
         r \in {linktime_resolve_interface_method(resolved_klass, method_name, method_signature,
                                                  current_klass, check_access)} })

(* LinkResolver::resolve_handle_call.  invoker: the answer of the Java     *)
(* up-call that spins an invoker, if it is made.                           *)
resolve_handle_call(resolved_klass, method_name, method_signature, current_klass, check_access, invoker) ==
  Only({ IF p.exc # EXC_none THEN Failed(p.exc, {})
         ELSE IF p.method = NULL
         THEN (* the access check reads resolved_method->method_holder() of a  *)
              (* null method when the name is an intrinsic's                   *)
              IF /\ check_access
                 /\ is_signature_polymorphic_intrinsic(signature_polymorphic_name_id(method_name))
              THEN Failed(VMCrash, {})
              ELSE Failed(InternalError, {})
         ELSE IF /\ check_access
                 /\ is_signature_polymorphic_intrinsic(signature_polymorphic_name_id(method_name))
                 /\ ~check_method_accessability(current_klass, resolved_klass,
                                                method_holder(p.method), p.method)
         THEN Failed(IllegalAccessError, {})
         ELSE Linked(set_handle(p.method, p.appendix, p.method_type), {}) :
         p \in {lookup_polymorphic_method(resolved_klass, method_name, method_signature,
                                          TRUE, invoker)} })

----------------------------------------------------------------------------
(* Class initialization (instanceKlass::ClassState).                       *)

linked == "linked"
being_initialized == "being_initialized"
fully_initialized == "fully_initialized"
initialization_error == "initialization_error"

NoClassDefFoundError == "java_lang_NoClassDefFoundError"
ExceptionInInitializerError == "java_lang_ExceptionInInitializerError"

(* The klasses that are linked but not initialized when the model starts;  *)
(* every other klass has been initialized during start-up.                 *)
InitKlasses == {"Base", "Circle"}

(* instanceKlass::init_state() *)
InitStateOf(states, k) == IF k \in DOMAIN states THEN states[k] ELSE fully_initialized

(* instanceKlass::is_initialized() *)
is_initialized(states, k) == InitStateOf(states, k) = fully_initialized

(* instanceKlass::should_be_initialized() *)
should_be_initialized(states, k) == ~is_initialized(states, k)

(* instanceKlass::initialize, run to its end by the calling thread:        *)
(* initializer_ok says whether the static initializer returns normally.    *)
(* A klass in the error state fails at once; the initializer is not run.   *)
initialize(states, k, initializer_ok) ==
  \* st: the init state the thread finds
  Only({ IF st = fully_initialized THEN [exc |-> EXC_none, states |-> states]
         ELSE IF st = initialization_error
         THEN [exc |-> NoClassDefFoundError, states |-> states]
         ELSE IF initializer_ok
         THEN [exc |-> EXC_none, states |-> [states EXCEPT ![k] = fully_initialized]]
         ELSE [exc |-> ExceptionInInitializerError,
               states |-> [states EXCEPT ![k] = initialization_error]] :
         st \in {InitStateOf(states, k)} })

(* The end of resolve_static_call after the holder was initialized: r2 is  *)
(* what the second linktime_resolve_static_method gave.                    *)
RelinkStatic(r2, holder, checked, states) ==
  IF r2.exc # EXC_none
  THEN [out |-> Failed(r2.exc, checked \cup r2.lc_checked), states |-> states]
  ELSE [out |-> Linked(set_static(holder, r2.method), checked \cup r2.lc_checked),
        states |-> states]

(* resolve_static_call from the first link-time result r1 on.              *)
InitializeAndLink(r1, states, method_name, method_signature, current_klass, check_access, initialize_class, initializer_ok) ==
  IF r1.exc # EXC_none THEN [out |-> Failed(r1.exc, r1.lc_checked), states |-> states]
  ELSE \* holder: resolved_klass = resolved_method->method_holder()
       Only({ IF initialize_class /\ should_be_initialized(states, holder)
              THEN Only({ IF i.exc # EXC_none
                          THEN [out |-> Failed(i.exc, r1.lc_checked), states |-> i.states]
                          ELSE RelinkStatic(
                                 linktime_resolve_static_method(holder, method_name,
                                                                method_signature, current_klass,
                                                                check_access),
                                 holder, r1.lc_checked, i.states) :
                          i \in {initialize(states, holder, initializer_ok)} })
              ELSE [out |-> Linked(set_static(holder, r1.method), r1.lc_checked),
                    states |-> states] :
              holder \in {method_holder(r1.method)} })

(* A faulty resolve_static_call: the klass named by the reference is       *)
(* initialized before the method is looked up.                             *)
resolve_static_call_initializing_first(states, resolved_klass, method_name, method_signature, current_klass, check_access, initialize_class, initializer_ok) ==
  Only({ InitializeAndLink(linktime_resolve_static_method(resolved_klass, method_name,
                                                          method_signature, current_klass,
                                                          check_access),
                           i.states, method_name, method_signature, current_klass,
                           check_access, initialize_class, initializer_ok) :
         i \in {IF initialize_class THEN initialize(states, resolved_klass, initializer_ok)
                ELSE [exc |-> EXC_none, states |-> states]} })

(* LinkResolver::resolve_static_call: the outcome and the init states it   *)
(* leaves.                                                                 *)
resolve_static_call(states, resolved_klass, method_name, method_signature, current_klass, check_access, initialize_class, initializer_ok) ==
  InitializeAndLink(linktime_resolve_static_method(resolved_klass, method_name,
                                                   method_signature, current_klass, check_access),
                    states, method_name, method_signature, current_klass, check_access,
                    initialize_class, initializer_ok)

----------------------------------------------------------------------------
(* The speculative variants (lines 1017-1124): the resolution is run under *)
(* an EXCEPTION_MARK, a pending exception is cleared and answered by a     *)
(* null method or the invalid vtable index.                                *)

(* What a variant leaves: the exception still pending when it returns (a   *)
(* VM crash inside the resolution is not an exception and is not caught),  *)
(* and the method or the vtable index returned.                            *)
Speculative(e, m, index) == [exc |-> e, method |-> m, vtable_index |-> index]

(* A faulty OrNull: the pending exception is left to the caller.           *)
OrNull_keeping_pending(exc, m, index) ==
  IF exc = EXC_none THEN Speculative(EXC_none, m, index)
  ELSE Speculative(exc, NULL, invalid_vtable_index)

(* if (HAS_PENDING_EXCEPTION) { CLEAR_PENDING_EXCEPTION; return null or    *)
(* invalid_vtable_index } else return the result.                          *)
OrNull(exc, m, index) ==
  IF exc = EXC_none THEN Speculative(EXC_none, m, index)
  ELSE IF exc = VMCrash THEN Speculative(VMCrash, NULL, invalid_vtable_index)
  ELSE Speculative(EXC_none, NULL, invalid_vtable_index)

(* LinkResolver::linktime_resolve_interface_method_or_null *)
linktime_resolve_interface_method_or_null(resolved_klass, method_name, method_signature, current_klass, check_access) ==
  \* r: what linktime_resolve_interface_method leaves
  Only({ OrNull(r.exc, r.method, invalid_vtable_index) :
         r \in {linktime_resolve_interface_method(resolved_klass, method_name, method_signature,
                                                  current_klass, check_access)} })

(* LinkResolver::linktime_resolve_virtual_method_or_null *)
linktime_resolve_virtual_method_or_null(resolved_klass, method_name, method_signature, current_klass, check_access) ==
  Only({ OrNull(r.exc, r.method, invalid_vtable_index) :
         r \in {linktime_resolve_virtual_method(resolved_klass, method_name, method_signature,
                                                current_klass, check_access)} })

(* LinkResolver::resolve_virtual_call_or_null: no receiver object, access  *)
(* checked, the null and abstract checks off.                              *)
resolve_virtual_call_or_null(receiver_klass, resolved_klass, name_, signature_, current_klass) ==
  Only({ OrNull(r.exc, r.info.selected_method, invalid_vtable_index) :
         r \in {resolve_virtual_call(TRUE, receiver_klass, resolved_klass, name_, signature_,
                                     current_klass, TRUE, FALSE)} })

(* LinkResolver::resolve_interface_call_or_null *)
resolve_interface_call_or_null(receiver_klass, resolved_klass, name_, signature_, current_klass) ==
  Only({ OrNull(r.exc, r.info.selected_method, invalid_vtable_index) :
         r \in {resolve_interface_call(TRUE, receiver_klass, resolved_klass, name_, signature_,
                                       current_klass, TRUE, FALSE)} })

(* LinkResolver::resolve_virtual_vtable_index *)
resolve_virtual_vtable_index(receiver_klass, resolved_klass, name_, signature_, current_klass) ==
  Only({ OrNull(r.exc, NULL, r.info.vtable_index) :
         r \in {resolve_virtual_call(TRUE, receiver_klass, resolved_klass, name_, signature_,
                                     current_klass, TRUE, FALSE)} })

(* LinkResolver::resolve_static_call_or_null: access checked,              *)
(* initialize_class off.  The init states it leaves go with the answer.    *)
resolve_static_call_or_null(states, resolved_klass, name_, signature_, current_klass, initializer_ok) ==
  Only({ [answer |-> OrNull(r.out.exc, r.out.info.selected_method, invalid_vtable_index),
          states |-> r.states] :
         r \in {resolve_static_call(states, resolved_klass, name_, signature_, current_klass,
                                    TRUE, FALSE, initializer_ok)} })

(* LinkResolver::resolve_special_call_or_null *)
resolve_special_call_or_null(resolved_klass, name_, signature_, current_klass, AllowNonVirtualCalls) ==
  Only({ OrNull(r.exc, r.info.selected_method, invalid_vtable_index) :
         r \in {resolve_special_call(resolved_klass, name_, signature_, current_klass, TRUE,
                                     AllowNonVirtualCalls)} })

----------------------------------------------------------------------------
(* Field resolution                                                        *)

(* What resolve_field leaves: the pending exception, the field described   *)
(* by the FieldAccessInfo, and the (referring klass, field) pairs for      *)
(* which check_field_loader_constraints was evaluated.                     *)
FieldOut(e, fd, checked) == [exc |-> e, field |-> fd, lc_checked |-> checked]

(* LinkResolver::check_field_accessability: TRUE when allowed.             *)
check_field_accessability(ref_klass, resolved_klass, sel_klass, fd) ==
  verify_field_access(ref_klass, resolved_klass, sel_klass, Fields[fd].flags)

(* LinkResolver::check_field_loader_constraints: TRUE when no conflict.    *)
check_field_loader_constraints(ref_klass, sel_klass, sig) ==
  check_signature_loaders(sig, class_loader(ref_klass), class_loader(sel_klass)) = NULL

(* The end of resolve_field: i is what the initialization of the field's   *)
(* holder left (or the states as they were, if none was asked for).        *)
FieldConstraints(fd, sig, ref_klass, i) ==
  IF i.exc # EXC_none THEN [out |-> FieldOut(i.exc, NULL, {}), states |-> i.states]
  ELSE IF ~check_field_loader_constraints(ref_klass, Fields[fd].field_holder, sig)
  THEN [out |-> FieldOut(LinkageError, NULL, {<<ref_klass, fd>>}), states |-> i.states]
  ELSE [out |-> FieldOut(EXC_none, fd, {<<ref_klass, fd>>}), states |-> i.states]

(* A faulty CheckField: a put to a final field is let through from every   *)
(* klass that may access the field.                                        *)
CheckField_without_final_check(fd, states, resolved_klass, sig, ref_klass, byte, check_only, initializer_ok) ==
  IF fd = NULL THEN [out |-> FieldOut(NoSuchFieldError, NULL, {}), states |-> states]
  ELSE IF ~check_field_accessability(ref_klass, resolved_klass, Fields[fd].field_holder, fd)
  THEN [out |-> FieldOut(IllegalAccessError, NULL, {}), states |-> states]
  ELSE IF (byte \in {"_getstatic", "_putstatic"}) # ("static" \in Fields[fd].flags)
  THEN [out |-> FieldOut(IncompatibleClassChangeError, NULL, {}), states |-> states]
  ELSE FieldConstraints(fd, sig, ref_klass,
                        IF byte \in {"_getstatic", "_putstatic"} /\ ~check_only
                        THEN initialize(states, Fields[fd].field_holder, initializer_ok)
                        ELSE [exc |-> EXC_none, states |-> states])

(* resolve_field on the field find_field selected.                         *)
CheckField(fd, states, resolved_klass, sig, ref_klass, byte, check_only, initializer_ok) ==
  IF fd = NULL THEN [out |-> FieldOut(NoSuchFieldError, NULL, {}), states |-> states]
  ELSE IF ~check_field_accessability(ref_klass, resolved_klass, Fields[fd].field_holder, fd)
  THEN [out |-> FieldOut(IllegalAccessError, NULL, {}), states |-> states]
  ELSE IF (byte \in {"_getstatic", "_putstatic"}) # ("static" \in Fields[fd].flags)
  THEN [out |-> FieldOut(IncompatibleClassChangeError, NULL, {}), states |-> states]
  ELSE IF /\ byte \in {"_putfield", "_putstatic"}
          /\ "final" \in Fields[fd].flags
          /\ Fields[fd].field_holder # ref_klass
  THEN [out |-> FieldOut(IllegalAccessError, NULL, {}), states |-> states]
  ELSE FieldConstraints(fd, sig, ref_klass,
                        IF byte \in {"_getstatic", "_putstatic"} /\ ~check_only
                        THEN initialize(states, Fields[fd].field_holder, initializer_ok)
                        ELSE [exc |-> EXC_none, states |-> states])

(* LinkResolver::resolve_field, the constant pool entry already read:      *)
(* resolved_klass, field and sig are what the entry names, ref_klass the   *)
(* pool holder.                                                            *)
resolve_field(states, resolved_klass, field, sig, ref_klass, byte, check_only, initializer_ok) ==
  CheckField(find_field(resolved_klass, field, sig), states, resolved_klass, sig, ref_klass,
             byte, check_only, initializer_ok)

----------------------------------------------------------------------------
(* Constant pools.  An entry is a Methodref or InterfaceMethodref of the   *)
(* pool of klass pool_holder, used by one invoke bytecode.                 *)

PoolEntry(holder, klass, n, sig, code, prer) ==
  [pool_holder |-> holder, klass_ref |-> klass, name_ref |-> n, signature_ref |-> sig,
   bytecode |-> code, has_preresolution |-> prer]

ConstantPool ==
  << PoolEntry("Circle", "Base",  "use",  <<"T", "V">>, "_invokevirtual",   TRUE),
     PoolEntry("Other",  "Base",  "use",  <<"T", "V">>, "_invokevirtual",   TRUE),
     PoolEntry("Other",  "Shape", "use",  <<"T", "V">>, "_invokeinterface", FALSE) >>

PoolIndexes == DOMAIN ConstantPool

(* ConstantPoolCacheEntry: the method an entry was resolved to (NULL while *)
(* unresolved), and whether the resolution that filled it evaluated the    *)
(* loader constraints for (pool_holder, method).                           *)
Unresolved == [method |-> NULL, lc_checked |-> FALSE]

(* constantPoolOopDesc::method_at_if_loaded *)
method_at_if_loaded(cache, index) == cache[index].method

(* LinkResolver::resolve_invokevirtual and resolve_invokeinterface, as     *)
(* resolve_invoke dispatches to them: resolve_pool, then the call with     *)
(* access and null/abstract checks on.                                     *)
resolve_invoke(recv_is_null, recv_klass, index) ==
  \* e: the entry's klass, name, signature and pool holder (resolve_pool)
  Only({ IF e.bytecode = "_invokevirtual"
         THEN resolve_virtual_call(recv_is_null, recv_klass, e.klass_ref, e.name_ref,
                                   e.signature_ref, e.pool_holder, TRUE, TRUE)
         ELSE resolve_interface_call(recv_is_null, recv_klass, e.klass_ref, e.name_ref,
                                     e.signature_ref, e.pool_holder, TRUE, TRUE) :
         e \in {ConstantPool[index]} })

(* resolve_method_statically once the cache has been consulted.            *)
ResolveUncached(cached, e) ==
  IF cached # NULL
  THEN [r |-> Found(cached, {}), from_cache |-> TRUE]
  ELSE IF e.bytecode = "_invokeinterface"
  THEN [r |-> resolve_interface_method(e.klass_ref, e.name_ref, e.signature_ref,
                                       e.pool_holder, TRUE),
        from_cache |-> FALSE]
  ELSE [r |-> resolve_method(e.klass_ref, e.name_ref, e.signature_ref, e.pool_holder, TRUE),
        from_cache |-> FALSE]

(* LinkResolver::resolve_method_statically, for invokevirtual and          *)
(* invokeinterface entries.                                                *)
resolve_method_statically(cache, index) ==
  Only({ ResolveUncached(IF \/ e.has_preresolution
                            \/ /\ e.klass_ref = "MethodHandle"
                               /\ signature_polymorphic_name_id(e.name_ref) # IID_none
                         THEN method_at_if_loaded(cache, index)
                         ELSE NULL,
                         e) :
         e \in {ConstantPool[index]} })

----------------------------------------------------------------------------
(* invokedynamic call sites.  The secondary constant pool cache entry of a *)
(* site holds, once bound, the adapter method, the appendix (the CallSite) *)
(* and the method type.                                                    *)

NumThreads == 2
NumSites == 1
MaxCalls == 3

Threads == 1..NumThreads
Sites == 1..NumSites

(* What the cache entry publishes of a CallInfo.                           *)
Triple(info) ==
  [method |-> info.resolved_method, appendix |-> info.resolved_appendix,
   method_type |-> info.resolved_method_type]

(* A cache entry that is not bound: f1 is null.                            *)
Unbound == [method |-> NULL, appendix |-> NULL, method_type |-> NULL]

(* ConstantPoolCacheEntry::is_f1_null *)
is_f1_null(cache, site) == cache[site].method = NULL

(* The CallSite objects the bootstrap methods make, in the order of their  *)
(* making.                                                                 *)
CallSites ==
  <<"CallSite#1", "CallSite#2", "CallSite#3", "CallSite#4", "CallSite#5", "CallSite#6",
    "CallSite#7", "CallSite#8">>

(* A faulty CallInfoOfEntry: the appendix of the entry is left out.        *)
CallInfoOfEntry_without_appendix(entry) == set_handle(entry.method, NULL, entry.method_type)

(* resolve_invokedynamic, lines 1271-1276: the CallInfo made of a bound    *)
(* entry (f2_as_vfinal_method, appendix_if_resolved,                       *)
(* method_type_if_resolved).                                               *)
CallInfoOfEntry(entry) == set_handle(entry.method, entry.appendix, entry.method_type)

(* The throwables that are LinkageErrors (is_a(LinkageError_klass)).       *)
LinkageErrors ==
  {LinkageError, BootstrapMethodError, NoSuchMethodError, IncompatibleClassChangeError,
   AbstractMethodError, IllegalAccessError, NoClassDefFoundError, ExceptionInInitializerError}

OutOfMemoryError == "java_lang_OutOfMemoryError"

(* What the up-call SystemDictionary::find_dynamic_call_site_invoker may   *)
(* answer for a site: the linker adapter with a new CallSite as appendix   *)
(* (call_site names the new object), a pending exception, or no method.    *)
BootstrapAnswers(call_site) ==
  { Poly(EXC_none, "LF_linker", call_site, "mt"),
    Poly(EXC_none, NULL, NULL, NULL),
    Poly(BootstrapMethodError, NULL, NULL, NULL),
    Poly(IncompatibleClassChangeError, NULL, NULL, NULL),
    Poly(OutOfMemoryError, NULL, NULL, NULL) }

(* The throwable objects a resolve_dynamic_call can leave pending: the one *)
(* the up-call threw, or one the resolver made.                            *)
THROWN_BY_UPCALL == "thrown_by_upcall"
MADE_BY_RESOLVER == "made_by_resolver"

(* What resolve_dynamic_call leaves: the result out, which object is       *)
(* pending (NULL if none) and the object set as its cause by the resolver  *)
(* (NULL if none).                                                         *)
Pending(out, pending_oop, cause) ==
  [exc |-> out.exc, info |-> out.info, lc_checked |-> out.lc_checked,
   pending_oop |-> pending_oop, cause |-> cause]

(* A faulty resolve_dynamic_call: every pending exception that is not a    *)
(* BootstrapMethodError is wrapped.                                        *)
resolve_dynamic_call_wrapping_all(answer) ==
  IF answer.exc # EXC_none
  THEN IF answer.exc = BootstrapMethodError
       THEN Pending(Failed(answer.exc, {}), THROWN_BY_UPCALL, NULL)
       ELSE Pending(Failed(BootstrapMethodError, {}), MADE_BY_RESOLVER, THROWN_BY_UPCALL)
  ELSE IF answer.method = NULL THEN Pending(Failed(InternalError, {}), MADE_BY_RESOLVER, NULL)
  ELSE Pending(Linked(set_handle(answer.method, answer.appendix, answer.method_type), {}),
               NULL, NULL)

(* LinkResolver::resolve_dynamic_call, on the up-call's answer.            *)
resolve_dynamic_call(answer) ==
  IF answer.exc # EXC_none
  THEN IF answer.exc = BootstrapMethodError
       THEN Pending(Failed(answer.exc, {}), THROWN_BY_UPCALL, NULL)
       ELSE IF answer.exc \notin LinkageErrors
       THEN Pending(Failed(answer.exc, {}), THROWN_BY_UPCALL, NULL)
       ELSE Pending(Failed(BootstrapMethodError, {}), MADE_BY_RESOLVER, THROWN_BY_UPCALL)
  ELSE IF answer.method = NULL THEN Pending(Failed(InternalError, {}), MADE_BY_RESOLVER, NULL)
  ELSE Pending(Linked(set_handle(answer.method, answer.appendix, answer.method_type), {}),
               NULL, NULL)

(* A thread outside resolve_invokedynamic.                                 *)
IdleThread ==
  [pc |-> "idle", site |-> 0, bootstrap_specifier |-> NULL, exc |-> EXC_none,
   info |-> [resolved_klass |-> NULL, selected_klass |-> NULL, resolved_method |-> NULL,
             selected_method |-> NULL, vtable_index |-> invalid_vtable_index,
             resolved_appendix |-> NULL, resolved_method_type |-> NULL],
   used |-> [method |-> NULL, appendix |-> NULL, method_type |-> NULL],
   began_resolved |-> FALSE, invoked |-> 0, call_no |-> 0,
   answered |-> EXC_none, pending_oop |-> NULL, cause |-> NULL]

(* How often the model lets the initializer of one klass be started.       *)
MaxRuns == 2

(* The static method references of the calls that initialize: the klass    *)
(* named, the name and signature, and the klass the call is made in.       *)
StaticRefs ==
  { [klass |-> "Base", name |-> "make", signature |-> <<"O">>, current |-> "Circle"],
    [klass |-> "Circle", name |-> "make", signature |-> <<"O">>, current |-> "Circle"],
    [klass |-> "Circle", name |-> "id", signature |-> <<"I">>, current |-> "Base"] }

(* A thread outside resolve_static_call.  req: the klass whose             *)
(* initialization the thread asks for; stack: the klasses whose            *)
(* initializers it is running, innermost last; answered, exc, ran: the     *)
(* klass of the last initialize that returned, its exception, and whether  *)
(* the thread ran the initializer in it.                                   *)
IdleInit ==
  [pc |-> "idle", req |-> NULL, stack |-> << >>,
   ref |-> [klass |-> NULL, name |-> NULL, signature |-> << >>, current |-> NULL],
   answered |-> NULL, exc |-> EXC_none, ran |-> FALSE, info |-> NoCallInfo]

----------------------------------------------------------------------------
(* ClassLoaderDependencies: the dependency list of a class loader, a       *)
(* chain of two-element object arrays (class_loader, next).                *)

(* A null objArrayOop; the nodes are numbered from 1 in the order of their *)
(* allocation, the list head is node 1.                                    *)
NoNode == 0
list_head == 1

Node(loader, next) == [class_loader |-> loader, next |-> next]

(* The loader whose dependencies are recorded, its parent, and the loaders *)
(* it comes to depend on.                                                  *)
FromLoader == "from_class_loader"
ParentLoader == "parent"
DependencyLoaders == {"D", "E"}

(* java_lang_ClassLoader::parent, walked from from_class_loader: the       *)
(* loaders of its parent list.                                             *)
ParentList(from) == IF from = FromLoader THEN {FromLoader, ParentLoader} ELSE {from}

(* How many record_dependency calls the model follows.                     *)
MaxAdds == 3

(* A thread outside add.  dependency: the loader to add; ok, last: the     *)
(* node the walk is at and the last node it saw; new_dependency: the node  *)
(* allocated for the loader.                                               *)
IdleAdder ==
  [pc |-> "idle", dependency |-> NULL, ok |-> NoNode, last |-> NoNode,
   new_dependency |-> NoNode, exc |-> EXC_none]

RECURSIVE EndOfList(_, _, _)
(* The loop of locked_add from node end on: the node that holds loader, if *)
(* one does, else the last node of the list.                               *)
EndOfList(list, end, loader) ==
  IF list[end].class_loader = loader THEN [found |-> TRUE, last |-> end]
  ELSE IF list[end].next = NoNode THEN [found |-> FALSE, last |-> end]
  ELSE EndOfList(list, list[end].next, loader)

----------------------------------------------------------------------------
(* The resolver's callers.                                                 *)

(* The symbolic references presented: name and signature.                  *)
Ref(n, sig) == [name |-> n, signature |-> sig]

Refs ==
  { Ref("area", <<"D">>), Ref("area", <<"T", "V">>), Ref("use", <<"T", "V">>),
    Ref("hash", <<"I">>), Ref("clone", <<"O">>), Ref("id", <<"I">>),
    Ref("make", <<"O">>), Ref("make", <<"T", "O">>), Ref("pk", <<"V">>),
    Ref("priv", <<"V">>), Ref("<init>", <<"V">>), Ref("reg", <<"V">>),
    Ref("mark", <<"V">>), Ref("nosuch", <<"V">>),
    Ref("invokeBasic", <<"T", "O">>), Ref("linkToStatic", <<"T", "T", "V">>),
    Ref("invokeBasic", <<"[O", "O">>) }

(* The references an invokehandle site presents.                           *)
HandleRefs ==
  { Ref("invokeBasic", <<"T", "O">>), Ref("invokeBasic", <<"T", "I", "O">>),
    Ref("invoke", <<"T", "O">>), Ref("invokeExact", <<"T", "I", "O">>) }

(* The field references presented.                                         *)
FieldRefs ==
  { Ref("count", <<"I">>), Ref("item", <<"T">>), Ref("limit", <<"I">>),
    Ref("secret", <<"T">>), Ref("guard", <<"I">>), Ref("UNIT", <<"I">>),
    Ref("shared", <<"T">>), Ref("nosuch", <<"I">>) }

FieldBytecodes == {"_getstatic", "_putstatic", "_getfield", "_putfield"}

(* What the Java up-call of an invoker lookup may answer.                  *)
Invokers ==
  { Poly(EXC_none, "LF_invoker", "appendix_mt", "mt"),
    Poly(EXC_none, "LF_invoker", NULL, NULL),
    Poly(EXC_none, NULL, NULL, NULL),
    Poly(LinkageError, NULL, NULL, NULL) }

(* The klasses whose code presents references.                             *)
CurrentKlasses == {"Base", "Circle", "Ring", "Other", "Object"}

(* The klasses a receiver object can have.                                 *)
ReceiverKlasses == {"Object", "ObjArr", "Base", "Circle", "Multi", "Impl", "Sneaky", "Other", "MethodHandle"}

Call(op, rk, ref, ck, ca, rn, rvk, cna, ic, idx) ==
  [op |-> op, resolved_klass |-> rk, name |-> ref.name, signature |-> ref.signature,
   current_klass |-> ck, check_access |-> ca, recv_is_null |-> rn, recv_klass |-> rvk,
   check_null_and_abstract |-> cna, initialize_class |-> ic, index |-> idx,
   bytecode |-> NULL, AllowNonVirtualCalls |-> FALSE]

Idle ==
  [op |-> "idle", resolved_klass |-> NULL, name |-> NULL, signature |-> << >>,
   current_klass |-> NULL, check_access |-> FALSE, recv_is_null |-> FALSE, recv_klass |-> NULL,
   check_null_and_abstract |-> FALSE, initialize_class |-> FALSE, index |-> 0,
   bytecode |-> NULL, AllowNonVirtualCalls |-> FALSE]

(* What the caller gets back: the pending exception, the CallInfo (or the  *)
(* field of the FieldAccessInfo), the loader-constraint checks made in the *)
(* call, and whether the method came out of the constant pool cache.       *)
Returned(out, from_cache) ==
  [exc |-> out.exc, info |-> out.info, field |-> NULL, lc_checked |-> out.lc_checked,
   from_cache |-> from_cache]

FieldReturned(out) ==
  [exc |-> out.exc,
   info |-> [resolved_klass |-> NULL, selected_klass |-> NULL, resolved_method |-> NULL,
             selected_method |-> NULL, vtable_index |-> invalid_vtable_index,
             resolved_appendix |-> NULL, resolved_method_type |-> NULL],
   field |-> out.field, lc_checked |-> out.lc_checked, from_cache |-> FALSE]

NothingReturned ==
  [exc |-> EXC_none,
   info |-> [resolved_klass |-> NULL, selected_klass |-> NULL, resolved_method |-> NULL,
             selected_method |-> NULL, vtable_index |-> invalid_vtable_index,
             resolved_appendix |-> NULL, resolved_method_type |-> NULL],
   field |-> NULL, lc_checked |-> {}, from_cache |-> FALSE]

(* The receivers a caller passes with its flags: the interpreter passes    *)
(* an object of a klass, or no object, with the null and abstract checks   *)
(* on; the speculative callers pass no object, the checks off, and name    *)
(* the receiver klass themselves.                                          *)
Receivers(klasses) ==
  {[is_null |-> FALSE, klass |-> k, check |-> TRUE] : k \in klasses}
  \cup {[is_null |-> TRUE, klass |-> NULL, check |-> TRUE]}
  \cup {[is_null |-> TRUE, klass |-> k, check |-> FALSE] : k \in klasses}

Init ==
  /\ init_state = [k \in InitKlasses |-> linked]
  /\ cp_cache = [i \in PoolIndexes |-> Unresolved]
  /\ call = Idle
  /\ returned = NothingReturned
  /\ f1 = [s \in Sites |-> Unbound]
  /\ thread = [t \in Threads |-> IdleThread]
  /\ bootstrap_calls = [s \in Sites |-> 0]
  /\ calls_begun = 0
  /\ init_thread = [k \in InitKlasses |-> NULL]
  /\ clinit_runs = [k \in InitKlasses |-> 0]
  /\ ithread = [t \in Threads |-> IdleInit]
  /\ dep_list = << Node(NULL, NoNode) >>
  /\ adder = [t \in Threads |-> IdleAdder]
  /\ dep_calls = [begun |-> 0, returned |-> {}]

indy_vars == <<f1, thread, bootstrap_calls, calls_begun>>
dep_vars == <<dep_list, adder, dep_calls>>
link_vars == <<init_state, cp_cache, call, returned>>
clinit_vars == <<init_thread, clinit_runs, ithread>>

(* The initializer runs counted over a call that initializes to its end:   *)
(* the initializer of a klass ran if the klass left the linked state.      *)
RunsAfter(before, after, runs) ==
  [k \in InitKlasses |-> IF before[k] = linked /\ after[k] # linked THEN runs[k] + 1
                         ELSE runs[k]]

StaticCall ==
  /\ call = Idle
  /\ \E rk \in KlassNames, ref \in Refs, ck \in CurrentKlasses,
        ca \in BOOLEAN, ic \in BOOLEAN, ok \in BOOLEAN :
       \E r \in {resolve_static_call(init_state, rk, ref.name, ref.signature, ck, ca, ic, ok)} :
          /\ call' = Call("resolve_static_call", rk, ref, ck, ca, FALSE, NULL, FALSE, ic, 0)
          /\ returned' = Returned(r.out, FALSE)
          /\ init_state' = r.states
  /\ clinit_runs' = RunsAfter(init_state, init_state', clinit_runs)
  /\ UNCHANGED <<cp_cache, indy_vars, init_thread, ithread, dep_vars>>

SpecialCall ==
  /\ call = Idle
  /\ \E rk \in KlassNames, ref \in Refs, ck \in CurrentKlasses, ca \in BOOLEAN,
        anv \in BOOLEAN :
       /\ call' = [Call("resolve_special_call", rk, ref, ck, ca, FALSE, NULL, FALSE, FALSE, 0)
                    EXCEPT !.AllowNonVirtualCalls = anv]
       /\ returned' = Returned(resolve_special_call(rk, ref.name, ref.signature, ck, ca, anv),
                               FALSE)
  /\ UNCHANGED <<init_state, cp_cache, indy_vars, clinit_vars, dep_vars>>

(* The verifier lets a virtual call through only on a receiver assignable  *)
(* to the resolved klass.                                                  *)
VirtualCall ==
  /\ call = Idle
  /\ \E rk \in KlassNames, ref \in Refs, ck \in CurrentKlasses, ca \in BOOLEAN :
       \E recv \in Receivers({k \in ReceiverKlasses : is_subtype_of(k, rk)}) :
         /\ call' = Call("resolve_virtual_call", rk, ref, ck, ca, recv.is_null, recv.klass,
                         recv.check, FALSE, 0)
         /\ returned' = Returned(resolve_virtual_call(recv.is_null, recv.klass, rk, ref.name,
                                                      ref.signature, ck, ca, recv.check), FALSE)
  /\ UNCHANGED <<init_state, cp_cache, indy_vars, clinit_vars, dep_vars>>

InterfaceCall ==
  /\ call = Idle
  /\ \E rk \in KlassNames, ref \in Refs, ck \in CurrentKlasses, ca \in BOOLEAN :
       \E recv \in Receivers(ReceiverKlasses) :
         /\ call' = Call("resolve_interface_call", rk, ref, ck, ca, recv.is_null, recv.klass,
                         recv.check, FALSE, 0)
         /\ returned' = Returned(resolve_interface_call(recv.is_null, recv.klass, rk, ref.name,
                                                        ref.signature, ck, ca, recv.check), FALSE)
  /\ UNCHANGED <<init_state, cp_cache, indy_vars, clinit_vars, dep_vars>>

(* An invokehandle site names MethodHandle and a signature-polymorphic     *)
(* method (the rewriter makes no other).  The up-call's answer is part of  *)
(* the returned record's appendix and method type.                         *)
HandleCall ==
  /\ call = Idle
  /\ \E ref \in HandleRefs, ck \in CurrentKlasses, ca \in BOOLEAN, invoker \in Invokers :
       /\ call' = Call("resolve_handle_call", "MethodHandle", ref, ck, ca, FALSE, NULL,
                       FALSE, FALSE, 0)
       /\ returned' = Returned(resolve_handle_call("MethodHandle", ref.name, ref.signature,
                                                   ck, ca, invoker), FALSE)
  /\ UNCHANGED <<init_state, cp_cache, indy_vars, clinit_vars, dep_vars>>

(* A getfield, putfield, getstatic or putstatic resolves its field; the    *)
(* compiler asks with check_only.                                          *)
FieldCall ==
  /\ call = Idle
  /\ \E rk \in KlassNames, ref \in FieldRefs, ck \in CurrentKlasses,
        byte \in FieldBytecodes, check_only \in BOOLEAN, ok \in BOOLEAN :
       \E r \in {resolve_field(init_state, rk, ref.name, ref.signature, ck, byte,
                               check_only, ok)} :
          /\ call' = [Call("resolve_field", rk, ref, ck, TRUE, FALSE, NULL, FALSE,
                           ~check_only, 0) EXCEPT !.bytecode = byte]
          /\ returned' = FieldReturned(r.out)
          /\ init_state' = r.states
  /\ clinit_runs' = RunsAfter(init_state, init_state', clinit_runs)
  /\ UNCHANGED <<cp_cache, indy_vars, init_thread, ithread, dep_vars>>

(* InterpreterRuntime::resolve_invoke: resolve the entry for the receiver  *)
(* at hand and, on success, record the resolved method in the entry's      *)
(* cache slot.  The verifier lets an invokevirtual through only on a       *)
(* receiver assignable to the entry's klass.                               *)
InterpreterResolve ==
  /\ call = Idle
  /\ \E index \in PoolIndexes :
       \E e \in {ConstantPool[index]} :
         \E recv \in {r \in Receivers(ReceiverKlasses) :
                        /\ r.check
                        /\ e.bytecode = "_invokevirtual" =>
                             (r.is_null \/ is_subtype_of(r.klass, e.klass_ref))} :
           \E out \in {resolve_invoke(recv.is_null, recv.klass, index)} :
            /\ call' = Call("resolve_invoke", e.klass_ref, Ref(e.name_ref, e.signature_ref),
                            e.pool_holder, TRUE, recv.is_null, recv.klass, TRUE, FALSE, index)
            /\ returned' = Returned(out, FALSE)
            /\ cp_cache' =
                 IF out.exc = EXC_none
                 THEN [cp_cache EXCEPT ![index] =
                         [method |-> out.info.resolved_method,
                          lc_checked |-> <<e.pool_holder, out.info.resolved_method>>
                                           \in out.lc_checked]]
                 ELSE cp_cache
  /\ UNCHANGED <<init_state, indy_vars, clinit_vars, dep_vars>>

(* A caller of resolve_method_statically (the compiler interface, the      *)
(* bytecode verifier's reflection): the method alone is returned.          *)
MethodStatically ==
  /\ call = Idle
  /\ \E index \in PoolIndexes :
       \E e \in {ConstantPool[index]}, s \in {resolve_method_statically(cp_cache, index)} :
          /\ call' = Call("resolve_method_statically", e.klass_ref,
                          Ref(e.name_ref, e.signature_ref), e.pool_holder, TRUE,
                          FALSE, NULL, FALSE, FALSE, index)
          /\ returned' =
               [exc |-> s.r.exc,
                info |-> [resolved_klass |-> IF s.r.exc = EXC_none THEN e.klass_ref ELSE NULL,
                          selected_klass |-> NULL, resolved_method |-> s.r.method,
                          selected_method |-> NULL, vtable_index |-> invalid_vtable_index,
                          resolved_appendix |-> NULL, resolved_method_type |-> NULL],
                field |-> NULL, lc_checked |-> s.r.lc_checked, from_cache |-> s.from_cache]
  /\ UNCHANGED <<init_state, cp_cache, indy_vars, clinit_vars, dep_vars>>

(* The caller takes the CallInfo (or the exception) and goes on.           *)
Return ==
  /\ call # Idle
  /\ call' = Idle
  /\ returned' = NothingReturned
  /\ UNCHANGED <<init_state, cp_cache, indy_vars, clinit_vars, dep_vars>>

Next ==
  \/ StaticCall
  \/ SpecialCall
  \/ VirtualCall
  \/ InterfaceCall
  \/ HandleCall
  \/ FieldCall
  \/ InterpreterResolve
  \/ MethodStatically
  \/ Return

Spec == Init /\ [][Next]_vars

----------------------------------------------------------------------------
(* The speculative callers (the compiler interface and the dependency      *)
(* checks), which ask for a method or a vtable index and take null or the  *)
(* invalid index for "not found", beside static calls that initialize.     *)

(* The variants that name a receiver klass.                                *)
ReceiverVariants ==
  {"resolve_virtual_call_or_null", "resolve_interface_call_or_null",
   "resolve_virtual_vtable_index"}

(* The variants that stop after link-time resolution; their callers choose *)
(* check_access.                                                           *)
LinkTimeVariants ==
  {"linktime_resolve_virtual_method_or_null", "linktime_resolve_interface_method_or_null"}

SpeculativeOps ==
  ReceiverVariants \cup LinkTimeVariants
    \cup {"resolve_static_call_or_null", "resolve_special_call_or_null"}

(* What the caller of a variant gets: the method is stored as the selected *)
(* method, for a link-time variant as the resolved method.                 *)
SpeculativeReturned(op, a) ==
  [exc |-> a.exc,
   info |-> [NoCallInfo EXCEPT
               !.selected_method = IF op \in LinkTimeVariants THEN NULL ELSE a.method,
               !.resolved_method = IF op \in LinkTimeVariants THEN a.method ELSE NULL,
               !.vtable_index = a.vtable_index],
   field |-> NULL, lc_checked |-> {}, from_cache |-> FALSE]

(* A call of one of the variants that name a receiver klass; for a        *)
(* virtual call the callers name a receiver klass that is a subtype of the *)
(* resolved klass.                                                         *)
SpeculativeReceiverCall ==
  /\ call = Idle
  /\ \E op \in ReceiverVariants, rk \in KlassNames, ref \in Refs, ck \in CurrentKlasses,
        rvk \in ReceiverKlasses :
       /\ op # "resolve_interface_call_or_null" => is_subtype_of(rvk, rk)
       /\ call' = Call(op, rk, ref, ck, TRUE, TRUE, rvk, FALSE, FALSE, 0)
       /\ returned' = SpeculativeReturned(op,
            CASE op = "resolve_virtual_call_or_null" ->
                   resolve_virtual_call_or_null(rvk, rk, ref.name, ref.signature, ck)
              [] op = "resolve_interface_call_or_null" ->
                   resolve_interface_call_or_null(rvk, rk, ref.name, ref.signature, ck)
              [] op = "resolve_virtual_vtable_index" ->
                   resolve_virtual_vtable_index(rvk, rk, ref.name, ref.signature, ck))
  /\ UNCHANGED <<init_state, cp_cache, indy_vars, clinit_vars, dep_vars>>

(* A call of a link-time variant or of resolve_special_call_or_null.       *)
SpeculativeLinkCall ==
  /\ call = Idle
  /\ \E op \in LinkTimeVariants \cup {"resolve_special_call_or_null"}, rk \in KlassNames,
        ref \in Refs, ck \in CurrentKlasses, flag \in BOOLEAN :
       /\ call' = [Call(op, rk, ref, ck, op \notin LinkTimeVariants \/ flag, FALSE, NULL,
                        FALSE, FALSE, 0)
                    EXCEPT !.AllowNonVirtualCalls = op \notin LinkTimeVariants /\ flag]
       /\ returned' = SpeculativeReturned(op,
            CASE op = "linktime_resolve_virtual_method_or_null" ->
                   linktime_resolve_virtual_method_or_null(rk, ref.name, ref.signature, ck, flag)
              [] op = "linktime_resolve_interface_method_or_null" ->
                   linktime_resolve_interface_method_or_null(rk, ref.name, ref.signature, ck,
                                                             flag)
              [] op = "resolve_special_call_or_null" ->
                   resolve_special_call_or_null(rk, ref.name, ref.signature, ck, flag))
  /\ UNCHANGED <<init_state, cp_cache, indy_vars, clinit_vars, dep_vars>>

(* A call of resolve_static_call_or_null.                                  *)
SpeculativeStaticCall ==
  /\ call = Idle
  /\ \E rk \in KlassNames, ref \in Refs, ck \in CurrentKlasses, ok \in BOOLEAN :
       \E r \in {resolve_static_call_or_null(init_state, rk, ref.name, ref.signature, ck, ok)} :
          /\ call' = Call("resolve_static_call_or_null", rk, ref, ck, TRUE, FALSE, NULL,
                          FALSE, FALSE, 0)
          /\ returned' = SpeculativeReturned("resolve_static_call_or_null", r.answer)
          /\ init_state' = r.states
  /\ clinit_runs' = RunsAfter(init_state, init_state', clinit_runs)
  /\ UNCHANGED <<cp_cache, indy_vars, init_thread, ithread, dep_vars>>

(* A caller of lookup_instance_method_in_klasses (resolve_interface_method  *)
(* on the resolved klass, runtime_resolve_interface_method on the receiver *)
(* klass): the method found is handed back as the resolved method; a walk  *)
(* that dereferences the null superclass of java.lang.Object hands back    *)
(* nothing defined and the VM does not go on.                              *)
LookupInstanceMethod ==
  /\ call = Idle
  /\ \E klass \in KlassNames, ref \in Refs :
       \E result \in {lookup_instance_method_in_klasses(klass, ref.name, ref.signature)} :
         /\ call' = Call("lookup_instance_method_in_klasses", klass, ref, NULL, FALSE, FALSE,
                         NULL, FALSE, FALSE, 0)
         /\ returned' = [exc |-> IF result = UNDEFINED THEN VMCrash ELSE EXC_none,
                         info |-> [NoCallInfo EXCEPT !.resolved_method = result],
                         field |-> NULL, lc_checked |-> {}, from_cache |-> FALSE]
  /\ UNCHANGED <<init_state, cp_cache, indy_vars, clinit_vars, dep_vars>>

NextLookup ==
  \/ LookupInstanceMethod
  \/ Return

SpecLookup == Init /\ [][NextLookup]_vars

----------------------------------------------------------------------------
(* Threads in ClassLoaderDependencies::record_dependency and add on the    *)
(* dependency list of one loader.  The walk of add is made without the     *)
(* lock: each read of a node's element is a step of its own, and other     *)
(* threads run between them.                                               *)

(* Lines 31-56: a dependency on the null loader, of the null loader, or on *)
(* a loader of the parent list is not recorded; else add begins, at the    *)
(* list head.                                                              *)
record_dependency(t) ==
  /\ adder[t].pc = "idle"
  /\ dep_calls.begun < MaxAdds
  /\ dep_calls' = [dep_calls EXCEPT !.begun = @ + 1]
  /\ \E from \in {NULL, FromLoader}, to \in DependencyLoaders \cup {NULL, ParentLoader} :
       IF to = NULL \/ from = NULL \/ to \in ParentList(from)
       THEN UNCHANGED adder
       ELSE adder' = [adder EXCEPT ![t] = [IdleAdder EXCEPT !.pc = "walk", !.dependency = to,
                                                            !.ok = list_head]]
  /\ UNCHANGED <<dep_list, link_vars, indy_vars, clinit_vars>>

(* Lines 67-72: the test of the loop, last = ok, and the read of the       *)
(* node's loader: the dependency found ends add.                           *)
WalkCompare(t) ==
  /\ adder[t].pc = "walk"
  /\ \E a \in {adder[t]} :
       adder' = [adder EXCEPT ![t] =
                   IF a.ok = NoNode THEN [a EXCEPT !.pc = "allocate"]
                   ELSE IF dep_list[a.ok].class_loader = a.dependency
                   THEN [a EXCEPT !.pc = "return", !.last = a.ok]
                   ELSE [a EXCEPT !.pc = "walk_next", !.last = a.ok]]
  /\ UNCHANGED <<dep_list, dep_calls, link_vars, indy_vars, clinit_vars>>

(* Line 73: ok = ok->obj_at(1), the read of the node's next element.       *)
WalkNext(t) ==
  /\ adder[t].pc = "walk_next"
  /\ adder' = [adder EXCEPT ![t].ok = dep_list[adder[t].ok].next, ![t].pc = "walk"]
  /\ UNCHANGED <<dep_list, dep_calls, link_vars, indy_vars, clinit_vars>>

(* Lines 80-82: the new node is allocated and given the loader; the        *)
(* allocation may fail, and add returns with the exception pending.        *)
Allocate(t) ==
  /\ adder[t].pc = "allocate"
  /\ \E allocated \in BOOLEAN :
       IF allocated
       THEN /\ dep_list' = Append(dep_list, Node(adder[t].dependency, NoNode))
            /\ adder' = [adder EXCEPT ![t].new_dependency = Len(dep_list) + 1,
                                      ![t].pc = "locked_add"]
       ELSE /\ adder' = [adder EXCEPT ![t].exc = OutOfMemoryError, ![t].pc = "return"]
            /\ UNCHANGED dep_list
  /\ UNCHANGED <<dep_calls, link_vars, indy_vars, clinit_vars>>

(* Lines 95-126, locked_add, under the lock of the list head (no other     *)
(* thread writes the list meanwhile): from the last node the walk saw to   *)
(* the end of the list, return if a node holds the loader; else fill the   *)
(* empty first element of the last node or link the new node behind it.    *)
locked_add(t) ==
  /\ adder[t].pc = "locked_add"
  /\ \E a \in {adder[t]} :
       \E e \in {EndOfList(dep_list, a.last, a.dependency)} :
         dep_list' = IF e.found THEN dep_list
                     ELSE IF dep_list[e.last].class_loader = NULL
                     THEN [dep_list EXCEPT ![e.last].class_loader = a.dependency]
                     ELSE [dep_list EXCEPT ![e.last].next = a.new_dependency]
  /\ adder' = [adder EXCEPT ![t].pc = "return"]
  /\ UNCHANGED <<dep_calls, link_vars, indy_vars, clinit_vars>>

(* add returns to record_dependency and that to its caller.                *)
ReturnAdd(t) ==
  /\ adder[t].pc = "return"
  /\ dep_calls' = IF adder[t].exc = EXC_none
                  THEN [dep_calls EXCEPT !.returned = @ \cup {adder[t].dependency}]
                  ELSE dep_calls
  /\ adder' = [adder EXCEPT ![t] = IdleAdder]
  /\ UNCHANGED <<dep_list, link_vars, indy_vars, clinit_vars>>

NextDependencies ==
  \E t \in Threads :
    \/ record_dependency(t)
    \/ WalkCompare(t)
    \/ WalkNext(t)
    \/ Allocate(t)
    \/ locked_add(t)
    \/ ReturnAdd(t)

SpecDependencies == Init /\ [][NextDependencies]_vars

NextSpeculative ==
  \/ SpeculativeReceiverCall
  \/ SpeculativeLinkCall
  \/ SpeculativeStaticCall
  \/ StaticCall
  \/ Return

SpecSpeculative == Init /\ [][NextSpeculative]_vars

----------------------------------------------------------------------------
(* Threads in LinkResolver::resolve_invokedynamic on the call sites of one *)
(* constant pool.  A thread's steps are the reads and writes of the site's *)
(* cache entry and the up-call; other threads run between them.            *)

(* An invokedynamic instruction is executed: resolve_invokedynamic begins. *)
BeginIndy(t) ==
  /\ thread[t].pc = "idle"
  /\ calls_begun < MaxCalls
  /\ \E site \in Sites :
       thread' = [thread EXCEPT ![t] = [IdleThread EXCEPT !.pc = "check_bound",
                                                         !.site = site,
                                                         !.call_no = calls_begun + 1,
                                                         !.began_resolved = ~is_f1_null(f1, site)]]
  /\ calls_begun' = calls_begun + 1
  /\ UNCHANGED <<f1, bootstrap_calls, link_vars, clinit_vars, dep_vars>>

(* A faulty CheckBound: the bootstrap specifier is not resolved.           *)
CheckBound_without_specifier(t) ==
  /\ thread[t].pc = "check_bound"
  /\ thread' = [thread EXCEPT ![t].pc = "check_again"]
  /\ UNCHANGED <<f1, bootstrap_calls, calls_begun, link_vars, clinit_vars, dep_vars>>

(* Line 1264: if the entry is not bound, resolve the bootstrap specifier   *)
(* (resolve_bootstrap_specifier_at may leave a pending exception).         *)
CheckBound(t) ==
  /\ thread[t].pc = "check_bound"
  /\ IF is_f1_null(f1, thread[t].site)
     THEN \E specifier_ok \in BOOLEAN :
            thread' = [thread EXCEPT ![t] =
                         IF specifier_ok
                         THEN [@ EXCEPT !.pc = "check_again", !.bootstrap_specifier = "bsm_info"]
                         ELSE [@ EXCEPT !.pc = "done", !.exc = NoClassDefFoundError]]
     ELSE thread' = [thread EXCEPT ![t].pc = "check_again"]
  /\ UNCHANGED <<f1, bootstrap_calls, calls_begun, link_vars, clinit_vars, dep_vars>>

(* A faulty CheckAgain: the entry is not read again, the thread goes on to *)
(* the bootstrap method.                                                   *)
CheckAgain_without_read(t) ==
  /\ thread[t].pc = "check_again"
  /\ thread' = [thread EXCEPT ![t].pc = "bootstrap"]
  /\ UNCHANGED <<f1, bootstrap_calls, calls_begun, link_vars, clinit_vars, dep_vars>>

(* Line 1271: if the entry is bound by now, the CallInfo is made of it.    *)
CheckAgain(t) ==
  /\ thread[t].pc = "check_again"
  /\ IF ~is_f1_null(f1, thread[t].site)
     THEN thread' = [thread EXCEPT ![t].pc = "publish",
                                   ![t].info = CallInfoOfEntry(f1[thread[t].site])]
     ELSE thread' = [thread EXCEPT ![t].pc = "bootstrap"]
  /\ UNCHANGED <<f1, bootstrap_calls, calls_begun, link_vars, clinit_vars, dep_vars>>

(* A faulty Bootstrap: a failed attempt marks the entry as bound, so that  *)
(* no later attempt asks the bootstrap method again.                       *)
Bootstrap_caching_failure(t) ==
  /\ thread[t].pc = "bootstrap"
  /\ \E site \in {thread[t].site} :
       /\ bootstrap_calls' = [bootstrap_calls EXCEPT ![site] = @ + 1]
       /\ \E answer \in BootstrapAnswers(CallSites[thread[t].call_no]) :
            \E out \in {resolve_dynamic_call(answer)} :
              /\ thread' = [thread EXCEPT ![t].pc = IF out.exc = EXC_none THEN "publish" ELSE "done",
                                          ![t].exc = out.exc,
                                          ![t].info = out.info,
                                          ![t].invoked = @ + 1,
                                          ![t].answered = answer.exc,
                                          ![t].pending_oop = out.pending_oop,
                                          ![t].cause = out.cause]
              /\ f1' = IF out.exc = EXC_none THEN f1
                       ELSE [f1 EXCEPT ![site] = [method |-> "LF_linker", appendix |-> NULL,
                                                  method_type |-> NULL]]
  /\ UNCHANGED <<calls_begun, link_vars, clinit_vars, dep_vars>>

(* Line 1286: resolve_dynamic_call makes the up-call to the bootstrap      *)
(* method; what the up-call answers is not in the resolver's hands.        *)
Bootstrap(t) ==
  /\ thread[t].pc = "bootstrap"
  /\ \E site \in {thread[t].site} :
       /\ bootstrap_calls' = [bootstrap_calls EXCEPT ![site] = @ + 1]
       /\ \E answer \in BootstrapAnswers(CallSites[thread[t].call_no]) :
            \E out \in {resolve_dynamic_call(answer)} :
              thread' = [thread EXCEPT ![t].pc = IF out.exc = EXC_none THEN "publish" ELSE "done",
                                       ![t].exc = out.exc,
                                       ![t].info = out.info,
                                       ![t].invoked = @ + 1,
                                       ![t].answered = answer.exc,
                                       ![t].pending_oop = out.pending_oop,
                                       ![t].cause = out.cause]
  /\ UNCHANGED <<f1, calls_begun, link_vars, clinit_vars, dep_vars>>

(* A faulty Publish: the entry is written whether it is bound or not.      *)
Publish_unconditionally(t) ==
  /\ thread[t].pc = "publish"
  /\ \E site \in {thread[t].site} :
       /\ f1' = [f1 EXCEPT ![site] = Triple(thread[t].info)]
       /\ thread' = [thread EXCEPT ![t].pc = "done", ![t].used = f1'[site]]
  /\ UNCHANGED <<bootstrap_calls, calls_begun, link_vars, clinit_vars, dep_vars>>

(* InterpreterRuntime::resolve_invokedynamic, after the resolver returned  *)
(* a CallInfo: set_dynamic_call binds the entry under the pool's lock if   *)
(* it is still unbound; the instruction is then executed from the entry.   *)
Publish(t) ==
  /\ thread[t].pc = "publish"
  /\ \E site \in {thread[t].site} :
       /\ f1' = IF is_f1_null(f1, site) THEN [f1 EXCEPT ![site] = Triple(thread[t].info)] ELSE f1
       /\ thread' = [thread EXCEPT ![t].pc = "done", ![t].used = f1'[site]]
  /\ UNCHANGED <<bootstrap_calls, calls_begun, link_vars, clinit_vars, dep_vars>>

(* The instruction completes, or its exception is thrown.                  *)
FinishIndy(t) ==
  /\ thread[t].pc = "done"
  /\ thread' = [thread EXCEPT ![t] = IdleThread]
  /\ UNCHANGED <<f1, bootstrap_calls, calls_begun, link_vars, clinit_vars, dep_vars>>

NextIndy ==
  \E t \in Threads :
    \/ BeginIndy(t)
    \/ CheckBound(t)
    \/ CheckAgain(t)
    \/ Bootstrap(t)
    \/ Publish(t)
    \/ FinishIndy(t)

SpecIndy == Init /\ [][NextIndy]_vars

----------------------------------------------------------------------------
(* resolve_static_call with initialize_class, by several threads, the      *)
(* initialization of the holder (instanceKlass::initialize) taken step by  *)
(* step: the state and the initializing thread are read and set under the  *)
(* klass's initialization lock; the static initializer runs outside it,    *)
(* may itself make static calls, and returns normally or with an           *)
(* exception.                                                              *)

(* The initializer started: the klass is marked being_initialized by t.    *)
StartInitializer(t, k) ==
  /\ clinit_runs[k] < MaxRuns
  /\ init_state' = [init_state EXCEPT ![k] = being_initialized]
  /\ init_thread' = [init_thread EXCEPT ![k] = t]
  /\ clinit_runs' = [clinit_runs EXCEPT ![k] = @ + 1]
  /\ ithread' = [ithread EXCEPT ![t].pc = "clinit", ![t].req = NULL,
                                ![t].stack = Append(@, k)]

(* initialize returns to the thread: with e pending or with none.  At the  *)
(* top the thread goes on in resolve_static_call, inside an initializer    *)
(* it goes on in that initializer.                                         *)
Answered(th, k, e, ran) ==
  [th EXCEPT !.pc = IF th.stack = << >> THEN "link" ELSE "clinit",
             !.req = NULL, !.answered = k, !.exc = e, !.ran = ran]

(* A faulty CallStatic: the result is set without the holder being         *)
(* initialized.                                                            *)
CallStatic_without_initializing(t) ==
  /\ ithread[t].pc = "idle"
  /\ \E ref \in StaticRefs :
       \E r1 \in {linktime_resolve_static_method(ref.klass, ref.name, ref.signature,
                                                 ref.current, TRUE)} :
         /\ r1.exc = EXC_none
         /\ \E holder \in {method_holder(r1.method)} :
              ithread' = [ithread EXCEPT
                            ![t].pc = "done", ![t].ref = ref, ![t].answered = holder,
                            ![t].info = set_static(holder, r1.method)]
  /\ UNCHANGED <<init_state, init_thread, clinit_runs, cp_cache, call, returned, indy_vars, dep_vars>>

(* Lines 699-706: link-time resolution, the holder taken as the resolved   *)
(* klass, and the test whether it is to be initialized.  The call is made  *)
(* by an idle thread or by the initializer the thread is running.          *)
CallStatic(t) ==
  /\ ithread[t].pc \in {"idle", "clinit"}
  /\ \E ref \in StaticRefs :
       \E r1 \in {linktime_resolve_static_method(ref.klass, ref.name, ref.signature,
                                                 ref.current, TRUE)} :
         /\ r1.exc = EXC_none
         /\ \E holder \in {method_holder(r1.method)} :
              IF should_be_initialized(init_state, holder)
              THEN ithread' = [ithread EXCEPT
                      ![t].pc = "enter", ![t].req = holder,
                      ![t].ref = IF ithread[t].pc = "idle" THEN ref ELSE @]
              ELSE /\ ithread[t].pc = "idle"
                   /\ ithread' = [ithread EXCEPT
                        ![t].pc = "done", ![t].ref = ref, ![t].answered = holder,
                        ![t].info = set_static(holder, r1.method)]
  /\ UNCHANGED <<init_state, init_thread, clinit_runs, cp_cache, call, returned, indy_vars, dep_vars>>

(* A faulty EnterInit: a klass in the error state is initialized anew.     *)
EnterInit_retrying(t) ==
  /\ ithread[t].pc = "enter"
  /\ \E k \in {ithread[t].req} :
       IF init_state[k] = being_initialized /\ init_thread[k] # t
       THEN /\ ithread' = [ithread EXCEPT ![t].pc = "wait"]
            /\ UNCHANGED <<init_state, init_thread, clinit_runs>>
       ELSE IF init_state[k] \in {being_initialized, fully_initialized}
       THEN /\ ithread' = [ithread EXCEPT ![t] = Answered(@, k, EXC_none, FALSE)]
            /\ UNCHANGED <<init_state, init_thread, clinit_runs>>
       ELSE StartInitializer(t, k)
  /\ UNCHANGED <<cp_cache, call, returned, indy_vars, dep_vars>>

(* A faulty EnterInit: a klass being initialized by another thread is      *)
(* taken for one the thread may go on with.                                *)
EnterInit_without_waiting(t) ==
  /\ ithread[t].pc = "enter"
  /\ \E k \in {ithread[t].req} :
       IF init_state[k] = being_initialized
       THEN StartInitializer(t, k)
       ELSE IF init_state[k] = fully_initialized
       THEN /\ ithread' = [ithread EXCEPT ![t] = Answered(@, k, EXC_none, FALSE)]
            /\ UNCHANGED <<init_state, init_thread, clinit_runs>>
       ELSE IF init_state[k] = initialization_error
       THEN /\ ithread' = [ithread EXCEPT ![t] = Answered(@, k, NoClassDefFoundError, FALSE)]
            /\ UNCHANGED <<init_state, init_thread, clinit_runs>>
       ELSE StartInitializer(t, k)
  /\ UNCHANGED <<cp_cache, call, returned, indy_vars, dep_vars>>

(* instanceKlass::initialize, under the lock: a klass being initialized by *)
(* another thread makes the thread wait; one being initialized by the      *)
(* thread itself, or initialized, lets it return; one in the error state   *)
(* gives NoClassDefFoundError; a linked one is initialized by the thread.  *)
EnterInit(t) ==
  /\ ithread[t].pc = "enter"
  /\ \E k \in {ithread[t].req} :
       IF init_state[k] = being_initialized /\ init_thread[k] # t
       THEN /\ ithread' = [ithread EXCEPT ![t].pc = "wait"]
            /\ UNCHANGED <<init_state, init_thread, clinit_runs>>
       ELSE IF init_state[k] \in {being_initialized, fully_initialized}
       THEN /\ ithread' = [ithread EXCEPT ![t] = Answered(@, k, EXC_none, FALSE)]
            /\ UNCHANGED <<init_state, init_thread, clinit_runs>>
       ELSE IF init_state[k] = initialization_error
       THEN /\ ithread' = [ithread EXCEPT ![t] = Answered(@, k, NoClassDefFoundError, FALSE)]
            /\ UNCHANGED <<init_state, init_thread, clinit_runs>>
       ELSE StartInitializer(t, k)
  /\ UNCHANGED <<cp_cache, call, returned, indy_vars, dep_vars>>

(* The waiting thread is notified once the initialization it waits for has *)
(* completed or failed, and looks at the state again.                      *)
WaitInit(t) ==
  /\ ithread[t].pc = "wait"
  /\ init_state[ithread[t].req] # being_initialized
  /\ ithread' = [ithread EXCEPT ![t].pc = "enter"]
  /\ UNCHANGED <<init_state, init_thread, clinit_runs, cp_cache, call, returned, indy_vars, dep_vars>>

(* The initializer the thread is running returns, normally or with an      *)
(* exception: the klass becomes fully_initialized or initialization_error  *)
(* and the waiting threads are notified.                                   *)
FinishClinit(t) ==
  /\ ithread[t].pc = "clinit"
  /\ \E ok \in BOOLEAN :
       \E k \in {ithread[t].stack[Len(ithread[t].stack)]} :
         /\ init_state' = [init_state EXCEPT
                             ![k] = IF ok THEN fully_initialized ELSE initialization_error]
         /\ init_thread' = [init_thread EXCEPT ![k] = NULL]
         /\ ithread' = [ithread EXCEPT ![t] =
                          Answered([@ EXCEPT !.stack = SubSeq(@, 1, Len(@) - 1)], k,
                                   IF ok THEN EXC_none ELSE ExceptionInInitializerError,
                                   TRUE)]
  /\ UNCHANGED <<clinit_runs, cp_cache, call, returned, indy_vars, dep_vars>>

(* Lines 707-713: initialize has returned; with an exception pending the   *)
(* call ends, else the method is resolved again and the CallInfo set.      *)
LinkStatic(t) ==
  /\ ithread[t].pc = "link"
  /\ \E th \in {ithread[t]} :
       IF th.exc # EXC_none
       THEN ithread' = [ithread EXCEPT ![t].pc = "done"]
       ELSE \E r \in {RelinkStatic(linktime_resolve_static_method(th.answered, th.ref.name,
                                                                   th.ref.signature,
                                                                   th.ref.current, TRUE),
                                   th.answered, {}, init_state)} :
              ithread' = [ithread EXCEPT ![t].pc = "done", ![t].exc = r.out.exc,
                                         ![t].info = r.out.info]
  /\ UNCHANGED <<init_state, init_thread, clinit_runs, cp_cache, call, returned, indy_vars, dep_vars>>

(* The caller takes the CallInfo or the exception.                         *)
ReturnStatic(t) ==
  /\ ithread[t].pc = "done"
  /\ ithread' = [ithread EXCEPT ![t] = IdleInit]
  /\ UNCHANGED <<init_state, init_thread, clinit_runs, cp_cache, call, returned, indy_vars, dep_vars>>

NextInit ==
  \E t \in Threads :
    \/ CallStatic(t)
    \/ EnterInit(t)
    \/ WaitInit(t)
    \/ FinishClinit(t)
    \/ LinkStatic(t)
    \/ ReturnStatic(t)

SpecInit == Init /\ [][NextInit]_vars

----------------------------------------------------------------------------
(* Properties of call linkage (specification Spec).                        *)

CallInfoOps ==
  {"resolve_static_call", "resolve_special_call", "resolve_virtual_call",
   "resolve_interface_call", "resolve_handle_call", "resolve_invoke"}

(* The operations that resolve a method reference with the caller's        *)
(* check_access flag.                                                      *)
MethodOps ==
  {"resolve_static_call", "resolve_special_call", "resolve_virtual_call",
   "resolve_interface_call", "resolve_invoke", "resolve_method_statically"}

(* C1: every CallInfo a successful resolution of any invocation kind       *)
(* (static, special, virtual, interface, handle) returns has a resolved    *)
(* method and a selected method of the same name and signature.            *)
C1_SameDescriptor ==
  (call.op \in CallInfoOps /\ returned.exc = EXC_none) =>
    /\ returned.info.resolved_method # NULL
    /\ returned.info.selected_method # NULL
    /\ name(returned.info.resolved_method) = name(returned.info.selected_method)
    /\ signature(returned.info.resolved_method) = signature(returned.info.selected_method)

(* A virtual call whose selected method is another method than the         *)
(* resolved one.                                                           *)
C1_Witness ==
  /\ call.op = "resolve_virtual_call"
  /\ returned.exc = EXC_none
  /\ returned.info.selected_method # returned.info.resolved_method

(* What resolve_method finds for the reference of the call at hand.        *)
LinkTimeMethod ==
  resolve_method(call.resolved_klass, call.name, call.signature, call.current_klass,
                 call.check_access)

(* C5: resolve_static_call of a reference that resolves to a method that   *)
(* is not static fails with IncompatibleClassChangeError and returns no    *)
(* CallInfo.                                                               *)
C5_StaticLinkageOfInstanceMethod ==
  (/\ call.op = "resolve_static_call"
   /\ LinkTimeMethod.exc = EXC_none
   /\ ~is_static(LinkTimeMethod.method)) =>
    /\ returned.exc = IncompatibleClassChangeError
    /\ returned.info = NoCallInfo

(* A static call of an instance method that was answered with the error.   *)
C5_Witness ==
  /\ call.op = "resolve_static_call"
  /\ LinkTimeMethod.exc = EXC_none
  /\ ~is_static(LinkTimeMethod.method)
  /\ returned.exc = IncompatibleClassChangeError

(* What resolve_interface_method finds for the reference of the call.      *)
LinkTimeInterfaceMethod ==
  resolve_interface_method(call.resolved_klass, call.name, call.signature,
                           call.current_klass, call.check_access)

(* The receiver of the call at hand is looked at (it is there, or the      *)
(* caller named its klass) and its klass does not implement the interface. *)
ReceiverDoesNotImplement ==
  /\ call.recv_klass # NULL
  /\ ~(call.check_null_and_abstract /\ call.recv_is_null)
  /\ ~is_subclass_of(call.recv_klass, call.resolved_klass)
  /\ \A i \in 1..Len(transitive_interfaces(call.recv_klass)) :
       transitive_interfaces(call.recv_klass)[i] # call.resolved_klass

(* C6: resolve_interface_call of a method resolved in an interface, on a   *)
(* receiver whose klass does not implement that interface, fails with      *)
(* IncompatibleClassChangeError, and not with NoSuchMethodError.           *)
C6_ReceiverNotImplementing ==
  (/\ call.op = "resolve_interface_call"
   /\ LinkTimeInterfaceMethod.exc = EXC_none
   /\ ReceiverDoesNotImplement) =>
    /\ returned.exc = IncompatibleClassChangeError
    /\ returned.exc # NoSuchMethodError

(* An interface call on a receiver of a klass that does not implement the  *)
(* interface, answered with IncompatibleClassChangeError.                  *)
C6_Witness ==
  /\ call.op = "resolve_interface_call"
  /\ Klasses[call.resolved_klass].is_interface
  /\ LinkTimeInterfaceMethod.exc = EXC_none
  /\ ReceiverDoesNotImplement
  /\ ~call.recv_is_null
  /\ returned.exc = IncompatibleClassChangeError

(* C7: in a virtual call whose resolved method is declared in a class and  *)
(* has a vtable index i, the selected method is slot i of the vtable of    *)
(* the receiver's klass (and i is the CallInfo's index), so that a method  *)
(* of the receiver's klass that overrides the resolved one is selected.    *)
C7_SelectedFromReceiverVtable ==
  (/\ call.op = "resolve_virtual_call"
   /\ returned.exc = EXC_none
   /\ ~Klasses[method_holder(returned.info.resolved_method)].is_interface
   /\ vtable_index(returned.info.resolved_method) >= 0) =>
    /\ returned.info.vtable_index = vtable_index(returned.info.resolved_method)
    /\ returned.info.selected_method =
         Vtables[call.recv_klass][vtable_index(returned.info.resolved_method) + 1]
    /\ (call.resolved_klass = "Base" /\ call.recv_klass = "Circle" /\ call.name = "area"
        /\ call.signature = <<"D">>) => returned.info.selected_method = "Circle_area"

(* Base.area resolved, a Circle receiver: Circle.area selected.            *)
C7_Witness ==
  /\ call.op = "resolve_virtual_call"
  /\ returned.exc = EXC_none
  /\ returned.info.resolved_method = "Base_area"
  /\ call.recv_klass = "Circle"
  /\ returned.info.selected_method = "Circle_area"

(* The interfaces a class names in its implements clauses, superclasses    *)
(* first, each clause in its declared order.                               *)
RECURSIVE DeclaredInterfaces(_)
DeclaredInterfaces(k) ==
  IF k = NULL THEN << >> ELSE DeclaredInterfaces(super(k)) \o local_interfaces(k)

(* The positions of DeclaredInterfaces(k) whose interface declares n:sig.  *)
Declaring(k, n, sig) ==
  {i \in 1..Len(DeclaredInterfaces(k)) : find_method(DeclaredInterfaces(k)[i], n, sig) # NULL}

(* The method of the first interface in declared order that declares it.   *)
FirstDeclared(k, n, sig) ==
  find_method(DeclaredInterfaces(k)[CHOOSE i \in Declaring(k, n, sig) :
                                      \A j \in Declaring(k, n, sig) : i <= j],
              n, sig)

(* The reference of the call at hand names a class, no class of the chain  *)
(* declares the method, and several interfaces of the class declare it.    *)
SeveralInterfacesDeclare ==
  /\ call.op \in {"resolve_static_call", "resolve_special_call", "resolve_virtual_call"}
  /\ ~Klasses[call.resolved_klass].is_interface
  /\ ~Klasses[call.resolved_klass].oop_is_array
  /\ uncached_lookup_method(call.resolved_klass, call.name, call.signature) = NULL
  /\ Cardinality(Declaring(call.resolved_klass, call.name, call.signature)) >= 2

LoaderConflict(sig, loader1, loader2) ==
  \E t \in SignatureTypes(sig) :
    /\ dictionary(loader1, t) # NULL
    /\ dictionary(loader2, t) # NULL
    /\ dictionary(loader1, t) # dictionary(loader2, t)

(* The member a successful call returned is one whose signature the loader *)
(* of the referring klass and the loader of the declaring klass resolve    *)
(* alike.                                                                  *)
ReturnedMemberAgrees ==
  IF call.op = "resolve_field"
  THEN ~LoaderConflict(Fields[returned.field].signature, class_loader(call.current_klass),
                       class_loader(Fields[returned.field].field_holder))
  ELSE ~LoaderConflict(signature(returned.info.resolved_method),
                       class_loader(call.current_klass),
                       class_loader(method_holder(returned.info.resolved_method)))

(* The statement as the specification has it, whatever the caller's        *)
(* check_access: a method or field resolution succeeds only if the two     *)
(* loaders agree on every type name of the member's signature.             *)
C9_AsStated ==
  (call.op \in MethodOps \cup {"resolve_field"} /\ returned.exc = EXC_none) =>
    ReturnedMemberAgrees

(* The method the reference of the call resolves to, access and loader     *)
(* constraints left aside.                                                 *)
FoundMethod ==
  IF Klasses[call.resolved_klass].is_interface
  THEN resolve_interface_method(call.resolved_klass, call.name, call.signature,
                                call.current_klass, FALSE)
  ELSE resolve_method(call.resolved_klass, call.name, call.signature,
                      call.current_klass, FALSE)

(* C9: a field resolution, and a method resolution made with check_access, *)
(* succeeds only if the loader of the referring klass and the loader of    *)
(* the declaring klass resolve every type name of the member's signature   *)
(* to the same class; and a method resolution made with check_access that  *)
(* finds an accessible method on whose signature the loaders disagree      *)
(* fails with LinkageError.                                                *)
C9_LoaderConstraints ==
  /\ (/\ call.op \in MethodOps \cup {"resolve_field"}
      /\ call.check_access
      /\ returned.exc = EXC_none) => ReturnedMemberAgrees
  /\ (/\ call.op \in {"resolve_static_call", "resolve_special_call", "resolve_virtual_call",
                      "resolve_interface_call"}
      /\ call.check_access
      /\ Klasses[call.resolved_klass].is_interface <=> call.op = "resolve_interface_call"
      /\ FoundMethod.exc = EXC_none
      /\ check_method_accessability(call.current_klass, call.resolved_klass,
                                    method_holder(FoundMethod.method), FoundMethod.method)
      /\ LoaderConflict(call.signature, class_loader(call.current_klass),
                        class_loader(method_holder(FoundMethod.method))))
     => returned.exc = LinkageError

(* A virtual call from a klass whose loader disagrees with the loader of   *)
(* the method's holder, answered with LinkageError.                        *)
C9_Witness ==
  /\ call.op = "resolve_virtual_call"
  /\ call.check_access
  /\ FoundMethod.exc = EXC_none
  /\ LoaderConflict(call.signature, class_loader(call.current_klass),
                    class_loader(method_holder(FoundMethod.method)))
  /\ returned.exc = LinkageError

(* The loader constraints were checked for the referring klass and the     *)
(* member the call returned: in this call, or, for a method taken from the *)
(* constant pool cache, when the entry of that pool was resolved.          *)
ConstraintsChecked ==
  IF call.op = "resolve_field"
  THEN <<call.current_klass, returned.field>> \in returned.lc_checked
  ELSE IF returned.from_cache
  THEN /\ cp_cache[call.index].lc_checked
       /\ ConstantPool[call.index].pool_holder = call.current_klass
       /\ cp_cache[call.index].method = returned.info.resolved_method
  ELSE <<call.current_klass, returned.info.resolved_method>> \in returned.lc_checked

----------------------------------------------------------------------------
(* Properties of invokedynamic call sites (specification SpecIndy).        *)

(* The statement as the specification has it: the bootstrap method of a    *)
(* site is invoked at most once, whatever the calls and their              *)
(* interleaving.                                                           *)
C2_AsStated == \A s \in Sites : bootstrap_calls[s] <= 1

(* C2: a call of resolve_invokedynamic invokes the bootstrap method at     *)
(* most once, and a call that begins when the site's entry is bound does   *)
(* not invoke it.                                                          *)
C2_NoBootstrapOnceBound ==
  \A t \in Threads :
    /\ thread[t].invoked <= 1
    /\ thread[t].began_resolved => thread[t].invoked = 0

(* A call that began on a bound entry has completed, the bootstrap method  *)
(* having been invoked for the site by an earlier call and not by it.      *)
C2_Witness ==
  \E t \in Threads :
    /\ thread[t].pc = "done"
    /\ thread[t].began_resolved
    /\ thread[t].invoked = 0
    /\ bootstrap_calls[thread[t].site] >= 1

(* C3: a call of resolve_invokedynamic that begins when the site's entry   *)
(* is bound returns, without exception, the method, appendix and method    *)
(* type of the entry, so that two such calls return the same.              *)
C3_ReturnsPublishedTriple ==
  \A t \in Threads :
    (thread[t].began_resolved /\ thread[t].pc \in {"publish", "done"}) =>
      /\ thread[t].exc = EXC_none
      /\ Triple(thread[t].info) = f1[thread[t].site]
      /\ \A u \in Threads :
           (/\ thread[u].began_resolved
            /\ thread[u].pc \in {"publish", "done"}
            /\ thread[u].site = thread[t].site) => thread[u].info = thread[t].info

(* Two calls that began on the bound entry of one site have returned.      *)
C3_Witness ==
  \E t, u \in Threads :
    /\ t # u
    /\ thread[t].began_resolved /\ thread[t].pc = "done"
    /\ thread[u].began_resolved /\ thread[u].pc = "done"
    /\ thread[u].site = thread[t].site
    /\ ~is_f1_null(f1, thread[t].site)

(* A bound entry does not change.                                          *)
BoundOnce == \A s \in Sites : ~is_f1_null(f1, s) => f1'[s] = f1[s]

(* A call that completed without exception uses the bound entry.           *)
UsesPublished ==
  \A t \in Threads :
    (thread[t].pc = "done" /\ thread[t].exc = EXC_none) =>
      /\ ~is_f1_null(f1, thread[t].site)
      /\ thread[t].used = f1[thread[t].site]

(* C4: the entry of a site is bound at most once: once bound it does not   *)
(* change, and every resolver that completes, the ones whose own result    *)
(* was not published included, uses the entry as it was bound.             *)
C4_PublishedOnce == [][BoundOnce]_vars /\ []UsesPublished

(* A resolver whose bootstrap call succeeded completes using an entry that *)
(* is not its own result.                                                  *)
C4_Witness ==
  \E t \in Threads :
    /\ thread[t].pc = "done"
    /\ thread[t].exc = EXC_none
    /\ thread[t].invoked = 1
    /\ Triple(thread[t].info) # thread[t].used
    /\ thread[t].used = f1[thread[t].site]

----------------------------------------------------------------------------
(* Properties of class initialization under static linkage (specification  *)
(* SpecInit).                                                              *)

(* A klass in the error state stays in it.                                 *)
ErrorStateIsPermanent ==
  \A k \in InitKlasses :
    init_state[k] = initialization_error => init_state'[k] = initialization_error

(* The initializer of a klass is started at most once, and was started     *)
(* once for a klass in the error state.                                    *)
InitializerRunsOnce ==
  \A k \in InitKlasses :
    /\ clinit_runs[k] <= 1
    /\ init_state[k] = initialization_error => clinit_runs[k] = 1

(* An initialize of a klass in the error state that did not itself run the *)
(* initializer ended with NoClassDefFoundError, and the static call that   *)
(* needed the klass returns that exception and no CallInfo.                *)
LaterUseFails ==
  \A t \in Threads :
    (ithread[t].answered # NULL /\ InitStateOf(init_state, ithread[t].answered) = initialization_error) =>
      /\ ithread[t].exc = IF ithread[t].ran THEN ExceptionInInitializerError
                          ELSE NoClassDefFoundError
      /\ ithread[t].pc = "done" => ithread[t].info = NoCallInfo

(* C11: once the static initialization of a klass has failed, the klass    *)
(* stays in the initialization_error state; every later static linkage    *)
(* that needs the klass fails with the error that stands for the earlier   *)
(* failure (NoClassDefFoundError); the initializer of the klass is run     *)
(* once in the whole execution.                                            *)
C11_InitializationErrorIsCached ==
  [][ErrorStateIsPermanent]_vars /\ [](InitializerRunsOnce /\ LaterUseFails)

(* A static call that found the klass in the error state, left by an       *)
(* initializer run by an earlier call, has failed.                         *)
C11_Witness ==
  \E t \in Threads :
    /\ ithread[t].pc = "done"
    /\ ithread[t].answered # NULL
    /\ ~ithread[t].ran
    /\ ithread[t].exc = NoClassDefFoundError
    /\ init_state[ithread[t].answered] = initialization_error
    /\ clinit_runs[ithread[t].answered] = 1

(* The threads that are running the initializer of k.                      *)
Initializing(k) ==
  {t \in Threads : \E i \in 1..Len(ithread[t].stack) : ithread[t].stack[i] = k}

(* No two threads run the initializer of one klass, no thread runs it      *)
(* twice at a time, and the thread that runs it is the klass's init        *)
(* thread.                                                                 *)
OneInitializerAtATime ==
  \A k \in InitKlasses :
    /\ Cardinality(Initializing(k)) <= 1
    /\ \A t \in Initializing(k) :
         /\ init_state[k] = being_initialized
         /\ init_thread[k] = t
         /\ Cardinality({i \in 1..Len(ithread[t].stack) : ithread[t].stack[i] = k}) = 1

(* A request of the initializing thread itself returns without waiting and *)
(* without exception.                                                      *)
ReentrantProceeds ==
  \A t \in Threads :
    (/\ ithread[t].pc = "enter"
     /\ init_state[ithread[t].req] = being_initialized
     /\ init_thread[ithread[t].req] = t
     /\ ithread'[t] # ithread[t]) =>
      /\ ithread'[t].pc = "clinit"
      /\ ithread'[t].answered = ithread[t].req
      /\ ithread'[t].exc = EXC_none
      /\ UNCHANGED <<init_state, init_thread, clinit_runs>>

(* A request of another thread waits, and a waiting thread goes on only    *)
(* when the initialization has completed or failed.                        *)
OthersWait ==
  \A t \in Threads :
    /\ (/\ ithread[t].pc = "enter"
        /\ init_state[ithread[t].req] = being_initialized
        /\ init_thread[ithread[t].req] # t
        /\ ithread'[t] # ithread[t]) => ithread'[t].pc = "wait"
    /\ (ithread[t].pc = "wait" /\ ithread'[t] # ithread[t]) =>
         init_state[ithread[t].req] \in {fully_initialized, initialization_error}

(* C12: while a klass is being initialized by a thread, a request of that  *)
(* thread to initialize the klass returns without waiting, a request of    *)
(* another thread waits until the initialization has completed or failed,  *)
(* and never do two threads run the initializer of one klass.              *)
C12_InitializationLock ==
  []OneInitializerAtATime /\ [][ReentrantProceeds /\ OthersWait]_vars

(* A thread has asked again for the klass it is initializing and goes on   *)
(* in the initializer, while another thread waits for that klass.          *)
C12_Witness ==
  \E t, u \in Threads :
    /\ t # u
    /\ ithread[t].pc = "clinit"
    /\ ithread[t].answered \in InitKlasses
    /\ t \in Initializing(ithread[t].answered)
    /\ ~ithread[t].ran
    /\ ithread[u].pc = "wait"
    /\ ithread[u].req = ithread[t].answered

(* Klass k is initialized, or is being initialized by thread t.            *)
InitializedFor(t, k) ==
  \/ InitStateOf(init_state, k) = fully_initialized
  \/ /\ k \in InitKlasses
     /\ init_state[k] = being_initialized
     /\ init_thread[k] = t

(* The same of the state that the step leaves.                             *)
InitializedForAfter(t, k) ==
  \/ InitStateOf(init_state', k) = fully_initialized
  \/ /\ k \in InitKlasses
     /\ init_state'[k] = being_initialized
     /\ init_thread'[k] = t

(* The step sets the CallInfo of the static call of thread t.              *)
SetsStaticResult(t) ==
  /\ ithread[t].info = NoCallInfo
  /\ ithread'[t].info # NoCallInfo

(* The step returns, without exception, from the static call that thread t *)
(* made inside an initializer it is running.                               *)
ReturnsInsideInitializer(t) ==
  /\ ithread[t].pc = "enter"
  /\ ithread'[t].pc = "clinit"
  /\ ithread'[t].stack = ithread[t].stack
  /\ ithread'[t].exc = EXC_none

(* C23: when resolve_static_call with initialize_class sets its result,    *)
(* the holder of the resolved method is already initialized, or is being   *)
(* initialized by the resolving thread, in the state the step is taken     *)
(* from and in the state it leaves; a thread that holds a result holds it  *)
(* for such a klass.                                                       *)
C23_InitializedBeforeResult ==
  /\ [](\A t \in Threads :
          ithread[t].info # NoCallInfo =>
            InitializedFor(t, method_holder(ithread[t].info.resolved_method)))
  /\ [][\A t \in Threads :
          /\ SetsStaticResult(t) =>
               /\ InitializedFor(t, method_holder(ithread'[t].info.resolved_method))
               /\ InitializedForAfter(t, method_holder(ithread'[t].info.resolved_method))
          /\ ReturnsInsideInitializer(t) =>
               /\ InitializedFor(t, ithread[t].req)
               /\ InitializedForAfter(t, ithread[t].req)]_vars

(* A thread holds the result of a static call in which it ran the          *)
(* initializer of the holder.                                              *)
C23_Witness ==
  \E t \in Threads :
    /\ ithread[t].pc = "done"
    /\ ithread[t].info # NoCallInfo
    /\ ithread[t].ran
    /\ ithread[t].answered = method_holder(ithread[t].info.resolved_method)
    /\ clinit_runs[ithread[t].answered] > 0
----------------------------------------------------------------------------
(* Claims on method lookup and selection, checked under Spec.              *)

(* The operations whose first step is resolve_method on the klass and the  *)
(* name and signature of the call.                                         *)
ResolveMethodOps == {"resolve_static_call", "resolve_special_call", "resolve_virtual_call"}

(* The call at hand resolves a method in a class that is not an array.     *)
ResolvesInClass ==
  /\ call.op \in ResolveMethodOps
  /\ ~Klasses[call.resolved_klass].is_interface
  /\ ~Klasses[call.resolved_klass].oop_is_array

(* The operations whose CallInfo carries the method that resolve_method    *)
(* found (set_static and set_virtual; resolve_special_call stores the      *)
(* selected method in its place).                                          *)
ReturnsResolvedMethod == call.op \in {"resolve_static_call", "resolve_virtual_call"}

(* The first match of the walk over the klass and its superclasses.        *)
WalkMatch == uncached_lookup_method(call.resolved_klass, call.name, call.signature)

(* The first match in the interfaces of the klass.                         *)
InterfaceMatch == lookup_method_in_all_interfaces(call.resolved_klass, call.name, call.signature)

(* What the signature-polymorphic lookup gives.                            *)
PolymorphicMatch ==
  lookup_polymorphic_method(call.resolved_klass, call.name, call.signature, FALSE, NoInvoker).method

(* The walk found a signature-polymorphic method of MethodHandle, which    *)
(* lookup_method_in_klasses sets aside.                                    *)
WalkMatchSetAside ==
  /\ EnableInvokeDynamic
  /\ WalkMatch # NULL
  /\ is_signature_polymorphic(intrinsic_id(WalkMatch))

(* linktime_resolve_special_method has a NoSuchMethodError of its own, for *)
(* a constructor that method resolution found in another klass.            *)
ConstructorNotInKlass(resolved_method) ==
  /\ call.op = "resolve_special_call"
  /\ call.name = "<init>"
  /\ resolved_method # NULL
  /\ method_holder(resolved_method) # call.resolved_klass

(* C13 as the specification has it: whatever the walk over the class chain *)
(* finds is the method resolved.                                           *)
C13_AsStated ==
  (ResolvesInClass /\ ReturnsResolvedMethod /\ WalkMatch # NULL /\ returned.exc = EXC_none) =>
    returned.info.resolved_method = WalkMatch

(* C13: method resolution in a class that is not an array gives the first  *)
(* match of the walk over the klass and its superclasses, unless that      *)
(* match is a signature-polymorphic method of MethodHandle, which is set   *)
(* aside; else the first match in the interfaces; else what the            *)
(* signature-polymorphic lookup gives; NoSuchMethodError is raised exactly *)
(* when all three give nothing.                                            *)
C13_LookupOrder ==
  ResolvesInClass =>
    \E walk \in {IF WalkMatchSetAside THEN NULL ELSE WalkMatch} :
      \E expected \in {IF walk # NULL THEN walk
                       ELSE IF InterfaceMatch # NULL THEN InterfaceMatch
                       ELSE PolymorphicMatch} :
        /\ (ReturnsResolvedMethod /\ returned.exc = EXC_none) =>
             returned.info.resolved_method = expected
        /\ expected = NULL => returned.exc = NoSuchMethodError
        /\ (returned.exc = NoSuchMethodError /\ ~ConstructorNotInKlass(expected)) =>
             expected = NULL

(* A resolution that set the match of the class walk aside and returned    *)
(* the method of the signature-polymorphic lookup.                         *)
C13_Witness ==
  /\ ResolvesInClass
  /\ ReturnsResolvedMethod
  /\ WalkMatchSetAside
  /\ InterfaceMatch = NULL
  /\ returned.exc = EXC_none
  /\ returned.info.resolved_method = PolymorphicMatch
  /\ returned.info.resolved_method # WalkMatch

(* The call at hand resolves a method in an array klass.                   *)
ResolvesInArray ==
  /\ call.op \in ResolveMethodOps
  /\ Klasses[call.resolved_klass].oop_is_array

(* C14: method resolution in an array klass searches the class chain only: *)
(* the method it returns is the match of the walk over the array klass and *)
(* java.lang.Object, and when that walk finds nothing the resolution fails *)
(* with NoSuchMethodError, also for a method that an interface of the      *)
(* array klass declares.                                                   *)
C14_ArraysSkipInterfaces ==
  ResolvesInArray =>
    /\ WalkMatch = NULL => returned.exc = NoSuchMethodError
    /\ (ReturnsResolvedMethod /\ returned.exc = EXC_none) =>
         returned.info.resolved_method = WalkMatch

(* A resolution in an array klass of a method that only an interface of    *)
(* the array klass declares, answered with NoSuchMethodError.              *)
C14_Witness ==
  /\ ResolvesInArray
  /\ WalkMatch = NULL
  /\ InterfaceMatch # NULL
  /\ returned.exc = NoSuchMethodError

(* What linktime_resolve_special_method finds for the reference of the     *)
(* call at hand.                                                           *)
LinkTimeSpecialMethod ==
  linktime_resolve_special_method(call.resolved_klass, call.name, call.signature,
                                  call.current_klass, call.check_access)

(* The lookup anew of the resolved method m, from the superclass of the    *)
(* current klass on.                                                       *)
SuperLookup(m) ==
  lookup_instance_method_in_klasses(super(call.current_klass), name(m), signature(m))

(* The current klass has the ACC_SUPER flag and the holder of m is one of  *)
(* its superclasses, not itself.                                           *)
MarkedSuperCall(m) ==
  /\ Klasses[call.current_klass].is_super
  /\ is_subclass_of(call.current_klass, method_holder(m))
  /\ call.current_klass # method_holder(m)

(* The condition under which runtime_resolve_special_method looks the      *)
(* method up anew.                                                         *)
SuperCall(m) ==
  /\ call.check_access
  /\ (Klasses[call.current_klass].is_super \/ ~call.AllowNonVirtualCalls)
  /\ is_subtype_of(call.current_klass, method_holder(m))
  /\ call.current_klass # method_holder(m)
  /\ name(m) # "<init>"

(* C15 as the specification has it: the method is looked up anew exactly   *)
(* when the current klass has ACC_SUPER and the resolved method's holder   *)
(* is a strict superclass of it.                                           *)
C15_AsStated ==
  (call.op = "resolve_special_call" /\ returned.exc = EXC_none) =>
    \E m \in {LinkTimeSpecialMethod.method} :
      returned.info.selected_method = IF MarkedSuperCall(m) THEN SuperLookup(m) ELSE m

(* C15: a special call made with access checking, of a method other than   *)
(* <init> whose holder is a strict supertype of the current klass, where   *)
(* the current klass has ACC_SUPER or the VM runs without                  *)
(* AllowNonVirtualCalls (the default), selects the method found by the     *)
(* lookup anew from the superclass of the current klass; any other         *)
(* special call selects the resolved method.                               *)
C15_SuperLookup ==
  (call.op = "resolve_special_call" /\ returned.exc = EXC_none) =>
    \E m \in {LinkTimeSpecialMethod.method} :
      returned.info.selected_method = IF SuperCall(m) THEN SuperLookup(m) ELSE m

(* A special call of a current klass without ACC_SUPER that selected       *)
(* another method than the resolved one.                                   *)
C15_Witness ==
  /\ call.op = "resolve_special_call"
  /\ returned.exc = EXC_none
  /\ ~Klasses[call.current_klass].is_super
  /\ SuperCall(LinkTimeSpecialMethod.method)
  /\ returned.info.selected_method = SuperLookup(LinkTimeSpecialMethod.method)
  /\ returned.info.selected_method # LinkTimeSpecialMethod.method

(* A virtual or interface call made without the null and abstract checks.  *)
ChecksOff ==
  /\ call.op \in {"resolve_virtual_call", "resolve_interface_call"}
  /\ ~call.check_null_and_abstract

(* Step 5 of resolve_method: the virtual call's reference resolves to an   *)
(* abstract method of a klass that is not abstract.                        *)
AbstractAtLinkTime ==
  /\ call.op = "resolve_virtual_call"
  /\ ~Klasses[call.resolved_klass].is_interface
  /\ \E m \in {LookupForResolve(call.resolved_klass, call.name, call.signature)} :
       /\ m # NULL
       /\ is_abstract(m)
       /\ ~Klasses[call.resolved_klass].is_abstract

(* The interface call's method has no implementation in the class chain of *)
(* the receiver klass.                                                     *)
NothingSelected ==
  /\ call.op = "resolve_interface_call"
  /\ LinkTimeInterfaceMethod.exc = EXC_none
  /\ \E m \in {LinkTimeInterfaceMethod.method} :
       lookup_instance_method_in_klasses(call.recv_klass, name(m), signature(m)) = NULL

(* C16 as the specification has it: without the checks no virtual or       *)
(* interface call ends in NullPointerException or AbstractMethodError.     *)
C16_AsStated ==
  ChecksOff => returned.exc \notin {NullPointerException, AbstractMethodError}

(* C16: a virtual or interface call made without the null and abstract     *)
(* checks never ends in NullPointerException, and ends in                  *)
(* AbstractMethodError only where the error does not depend on the checks: *)
(* the reference resolves to an abstract method of a klass that is not     *)
(* abstract, or the receiver's class chain has no method to select.  A     *)
(* selected method that is abstract is returned.                           *)
C16_ChecksOff ==
  ChecksOff =>
    /\ returned.exc # NullPointerException
    /\ returned.exc = AbstractMethodError => (AbstractAtLinkTime \/ NothingSelected)
    /\ (AbstractAtLinkTime \/ NothingSelected) => returned.exc # EXC_none

(* A call without the checks that returned an abstract selected method.    *)
C16_Witness ==
  /\ ChecksOff
  /\ call.recv_is_null
  /\ returned.exc = EXC_none
  /\ is_abstract(returned.info.selected_method)

(* The methods of that name and signature that the klasses of the          *)
(* receiver's class chain declare as instance methods.                     *)
ImplementationsInChain ==
  {m \in MethodIds \ IntrinsicTable :
     /\ is_subclass_of(call.recv_klass, method_holder(m))
     /\ name(m) = call.name
     /\ signature(m) = call.signature
     /\ ~is_static(m)}

(* The interface call at hand got as far as selecting a method: the        *)
(* reference resolved, the receiver passed the null check and its klass    *)
(* implements the interface.                                               *)
InterfaceSelects ==
  /\ call.op = "resolve_interface_call"
  /\ LinkTimeInterfaceMethod.exc = EXC_none
  /\ ~(call.check_null_and_abstract /\ call.recv_is_null)
  /\ is_subtype_of(call.recv_klass, call.resolved_klass)

(* C17: the selected method of a successful interface call is a public     *)
(* instance method declared by a class of the receiver's class chain, the  *)
(* one nearest to the receiver klass; and when that nearest implementation *)
(* is not public the call fails with IllegalAccessError, also when the     *)
(* implementation is abstract and the abstract check was asked for.        *)
C17_PublicSelectedMethod ==
  /\ (call.op = "resolve_interface_call" /\ returned.exc = EXC_none) =>
       \E sel \in {returned.info.selected_method} :
         /\ sel \in ImplementationsInChain
         /\ is_public(sel)
         /\ \A m \in ImplementationsInChain :
              is_subclass_of(method_holder(sel), method_holder(m))
  /\ \A sel \in ImplementationsInChain :
       (/\ InterfaceSelects
        /\ \A m \in ImplementationsInChain : is_subclass_of(method_holder(sel), method_holder(m))
        /\ ~is_public(sel)) =>
         returned.exc = IllegalAccessError

(* An interface call, made with the abstract check, whose implementation   *)
(* is abstract and not public, answered with IllegalAccessError.           *)
C17_Witness ==
  /\ InterfaceSelects
  /\ call.check_null_and_abstract
  /\ returned.exc = IllegalAccessError
  /\ \E sel \in ImplementationsInChain :
       /\ \A m \in ImplementationsInChain : is_subclass_of(method_holder(sel), method_holder(m))
       /\ ~is_public(sel)
       /\ is_abstract(sel)

(* A virtual call returned a CallInfo with a vtable index of a slot.       *)
VtableDispatch ==
  /\ call.op = "resolve_virtual_call"
  /\ returned.exc = EXC_none
  /\ returned.info.vtable_index >= 0

LookedUp == LookupForResolve(call.resolved_klass, call.name, call.signature)

(* The call at hand reaches the access check of resolve_method with the    *)
(* method m: m was found, passed step 5 and the caller asked for the       *)
(* check.                                                                  *)
AccessChecked(m) ==
  /\ call.op \in ResolveMethodOps
  /\ ~Klasses[call.resolved_klass].is_interface
  /\ m # NULL
  /\ ~(is_abstract(m) /\ ~Klasses[call.resolved_klass].is_abstract)
  /\ call.check_access

(* The call names an array klass and finds java.lang.Object's clone.       *)
ArrayClone(m) ==
  /\ Klasses[call.resolved_klass].oop_is_array
  /\ name(m) = "clone"
  /\ method_holder(m) = "Object"

(* The declared access flags of m let the current klass use it through the *)
(* resolved klass.                                                         *)
DeclaredAccess(m) ==
  verify_field_access(call.current_klass, call.resolved_klass, method_holder(m),
                      Methods[m].flags)

(* C21: a method resolution that names an array klass and finds            *)
(* java.lang.Object's clone never fails with IllegalAccessError, whatever  *)
(* the current klass; for every other klass or method the resolution fails *)
(* with IllegalAccessError exactly when the access check is reached and    *)
(* the method's declared flags deny the access.                            *)
C21_ArrayClone ==
  call.op \in ResolveMethodOps =>
    \E m \in {LookedUp} :
      IF m # NULL /\ ArrayClone(m)
      THEN returned.exc # IllegalAccessError
      ELSE returned.exc = IllegalAccessError <=> (AccessChecked(m) /\ ~DeclaredAccess(m))

(* A resolution of clone in an array klass, made with access checking from *)
(* a klass that the declared flags of clone shut out, that succeeded.      *)
C21_Witness ==
  /\ AccessChecked(LookedUp)
  /\ ArrayClone(LookedUp)
  /\ ~DeclaredAccess(LookedUp)
  /\ returned.exc = EXC_none
  /\ returned.info.resolved_method = "Object_clone"

(* The fields of the name and signature of the call that klass k declares. *)
DeclaredIn(k) ==
  {f \in FieldIds : /\ Fields[f].field_holder = k
                    /\ Fields[f].name = call.name
                    /\ Fields[f].signature = call.signature}

(* The direct superinterfaces of the resolved klass that declare, or       *)
(* inherit from an interface of theirs, a field of that name and           *)
(* signature.                                                              *)
InterfacesWithField ==
  {i \in KlassNames :
     /\ \E j \in 1..Len(local_interfaces(call.resolved_klass)) :
          local_interfaces(call.resolved_klass)[j] = i
     /\ \E h \in KlassNames : is_subtype_of(i, h) /\ DeclaredIn(h) # {}}

(* The supertypes of the resolved klass, itself included, that declare a   *)
(* field of that name and signature.                                       *)
DeclaringSupertypes ==
  {h \in KlassNames : is_subtype_of(call.resolved_klass, h) /\ DeclaredIn(h) # {}}

(* C22: a successful resolve_field returns the field of the name and       *)
(* signature declared by the klass that find_field selects: the resolved   *)
(* klass itself if it declares one, else an interface if one of its direct *)
(* superinterfaces has one, also when its superclass has one too, else a   *)
(* klass of the superclass chain; the holder returned is the klass that    *)
(* declares the field, and NoSuchFieldError is raised exactly when no      *)
(* supertype declares one.                                                 *)
C22_FieldSearchOrder ==
  call.op = "resolve_field" =>
    /\ returned.exc = NoSuchFieldError <=> DeclaringSupertypes = {}
    /\ returned.exc = EXC_none =>
         \E holder \in {Fields[returned.field].field_holder} :
           /\ returned.field \in DeclaredIn(holder)
           /\ holder \in DeclaringSupertypes
           /\ DeclaredIn(call.resolved_klass) # {} => holder = call.resolved_klass
           /\ (DeclaredIn(call.resolved_klass) = {} /\ InterfacesWithField # {}) =>
                \E i \in InterfacesWithField : is_subtype_of(i, holder)

(* A field that a direct superinterface and the superclass chain of the    *)
(* resolved klass both declare, resolved to the interface's.               *)
C22_Witness ==
  /\ call.op = "resolve_field"
  /\ returned.exc = EXC_none
  /\ DeclaredIn(call.resolved_klass) = {}
  /\ InterfacesWithField # {}
  /\ \E h \in DeclaringSupertypes : ~Klasses[h].is_interface
  /\ Klasses[Fields[returned.field].field_holder].is_interface

(* linktime_resolve_static_method on the reference of call record c.       *)
LinkTimeStatic(c) ==
  linktime_resolve_static_method(c.resolved_klass, c.name, c.signature, c.current_klass,
                                 c.check_access)

(* The exceptions that instanceKlass::initialize leaves.                   *)
InitializationErrors == {ExceptionInInitializerError, NoClassDefFoundError}

(* C24: a resolve_static_call changes the initialization state of a klass  *)
(* only if the link-time resolution of its reference (lookup, the checks   *)
(* of resolve_method and the check that the method is static) passed; a    *)
(* call that ends with a link-time error leaves every init state, and the  *)
(* count of initializer runs, as they were.                                *)
C24_InitializationAfterChecks ==
  [][(call = Idle /\ call'.op = "resolve_static_call") =>
       /\ (returned'.exc \notin InitializationErrors \cup {EXC_none}) =>
            UNCHANGED <<init_state, clinit_runs>>
       /\ LinkTimeStatic(call').exc # EXC_none =>
            /\ returned'.exc = LinkTimeStatic(call').exc
            /\ UNCHANGED <<init_state, clinit_runs>>
       /\ init_state' # init_state =>
            /\ call'.initialize_class
            /\ LinkTimeStatic(call').exc = EXC_none]_vars

(* A static call with initialize_class on a klass not yet initialized has  *)
(* failed a link-time check, and the klass is still only linked.           *)
C24_Witness ==
  /\ call.op = "resolve_static_call"
  /\ call.initialize_class
  /\ returned.exc \in {IllegalAccessError, IncompatibleClassChangeError, LinkageError}
  /\ call.resolved_klass \in InitKlasses
  /\ init_state[call.resolved_klass] = linked

(* The step is a resolve_field call.                                       *)
ResolvesField == call = Idle /\ call'.op = "resolve_field"

(* The errors of resolve_field that are not initialization failures.       *)
FieldLinkErrors ==
  {NoSuchFieldError, IllegalAccessError, IncompatibleClassChangeError, LinkageError}

(* C25, as stated: a resolve_field call that ends in NoSuchFieldError,     *)
(* IllegalAccessError, IncompatibleClassChangeError or LinkageError leaves *)
(* every init state unchanged, and a call with check_only never changes    *)
(* one.                                                                    *)
C25_AsStated ==
  [][ResolvesField =>
       /\ returned'.exc \in FieldLinkErrors => UNCHANGED <<init_state, clinit_runs>>
       /\ ~call'.initialize_class => UNCHANGED <<init_state, clinit_runs>>]_vars

(* A getstatic or putstatic without check_only has ended in LinkageError   *)
(* on a field whose holder has left the linked state.                      *)
C25_Witness ==
  /\ call.op = "resolve_field"
  /\ call.initialize_class
  /\ call.bytecode \in {"_getstatic", "_putstatic"}
  /\ returned.exc = LinkageError
  /\ \E p \in returned.lc_checked :
       /\ Fields[p[2]].field_holder \in InitKlasses
       /\ init_state[Fields[p[2]].field_holder] # linked
       /\ clinit_runs[Fields[p[2]].field_holder] > 0

(* The call at hand is a putfield or putstatic.                            *)
IsPut == call.op = "resolve_field" /\ call.bytecode \in {"_putfield", "_putstatic"}

(* The field that find_field selects for the call at hand.                 *)
SelectedField == find_field(call.resolved_klass, call.name, call.signature)

(* The bytecode of the call is of the kind of field fd: putstatic for a    *)
(* static field, putfield for an instance field.                           *)
KindMatches(fd) == (call.bytecode = "_putstatic") = ("static" \in Fields[fd].flags)

(* C26, as stated: a putfield or putstatic on a final field succeeds only  *)
(* from the klass that declares the field, and from every other klass it   *)
(* fails with IllegalAccessError.                                          *)
C26_AsStated ==
  IsPut =>
    \E fd \in {SelectedField} :
      (fd # NULL /\ "final" \in Fields[fd].flags) =>
        /\ returned.exc = EXC_none => call.current_klass = Fields[fd].field_holder
        /\ call.current_klass # Fields[fd].field_holder => returned.exc = IllegalAccessError

(* C26: a putfield or putstatic on a final field succeeds only from the    *)
(* klass that declares the field; from every other klass, a subclass or    *)
(* implementor in the same package among them, it fails, with              *)
(* IllegalAccessError whenever the bytecode is of the field's kind (a put  *)
(* of the other kind has failed before with IncompatibleClassChangeError   *)
(* unless the access check already gave IllegalAccessError).               *)
C26_FinalPut ==
  IsPut =>
    \E fd \in {SelectedField} :
      (fd # NULL /\ "final" \in Fields[fd].flags) =>
        /\ returned.exc = EXC_none => call.current_klass = Fields[fd].field_holder
        /\ call.current_klass # Fields[fd].field_holder =>
             /\ returned.exc \in {IllegalAccessError, IncompatibleClassChangeError}
             /\ KindMatches(fd) => returned.exc = IllegalAccessError

(* A put of the field's kind on a public final field, from a subtype of    *)
(* the declaring klass in its package, has failed with IllegalAccessError. *)
C26_Witness ==
  /\ IsPut
  /\ SelectedField # NULL
  /\ "final" \in Fields[SelectedField].flags
  /\ "public" \in Fields[SelectedField].flags
  /\ KindMatches(SelectedField)
  /\ call.current_klass # Fields[SelectedField].field_holder
  /\ is_subtype_of(call.current_klass, Fields[SelectedField].field_holder)
  /\ is_same_class_package(call.current_klass, Fields[SelectedField].field_holder)
  /\ returned.exc = IllegalAccessError

----------------------------------------------------------------------------
(* Claims on the speculative variants, checked under SpecSpeculative.      *)

(* The resolution that the variant of the call at hand runs, with the      *)
(* arguments the variant passes: what it leaves pending.                   *)
UnderlyingError ==
  CASE call.op \in ReceiverVariants \ {"resolve_interface_call_or_null"} ->
         resolve_virtual_call(TRUE, call.recv_klass, call.resolved_klass, call.name,
                              call.signature, call.current_klass, TRUE, FALSE).exc
    [] call.op = "resolve_interface_call_or_null" ->
         resolve_interface_call(TRUE, call.recv_klass, call.resolved_klass, call.name,
                                call.signature, call.current_klass, TRUE, FALSE).exc
    [] call.op = "linktime_resolve_virtual_method_or_null" ->
         linktime_resolve_virtual_method(call.resolved_klass, call.name, call.signature,
                                         call.current_klass, call.check_access).exc
    [] call.op = "linktime_resolve_interface_method_or_null" ->
         linktime_resolve_interface_method(call.resolved_klass, call.name, call.signature,
                                           call.current_klass, call.check_access).exc
    [] call.op = "resolve_special_call_or_null" ->
         resolve_special_call(call.resolved_klass, call.name, call.signature,
                              call.current_klass, TRUE, call.AllowNonVirtualCalls).exc
    [] call.op = "resolve_static_call_or_null" ->
         linktime_resolve_static_method(call.resolved_klass, call.name, call.signature,
                                        call.current_klass, TRUE).exc
    [] OTHER -> EXC_none

(* The variant of the call at hand answered "not found".                   *)
AnsweredNotFound ==
  IF call.op = "resolve_virtual_vtable_index"
  THEN returned.info.vtable_index = invalid_vtable_index
  ELSE IF call.op \in LinkTimeVariants THEN returned.info.resolved_method = NULL
  ELSE returned.info.selected_method = NULL

(* C27: a speculative variant that returns leaves no exception pending,    *)
(* and it answers with a null method (the invalid vtable index) exactly    *)
(* when the resolution it ran raised an exception, which is never          *)
(* NullPointerException; resolve_static_call_or_null changes no klass's    *)
(* init state.                                                             *)
C27_SpeculativeVariants ==
  /\ [](call.op \in SpeculativeOps =>
          /\ returned.exc \in {EXC_none, VMCrash}
          /\ UnderlyingError # NullPointerException
          /\ returned.exc = EXC_none => (AnsweredNotFound <=> UnderlyingError # EXC_none))
  /\ [][(call = Idle /\ call'.op = "resolve_static_call_or_null") =>
          UNCHANGED <<init_state, clinit_runs>>]_vars

(* resolve_static_call_or_null has answered with a static method of a      *)
(* klass that is still not initialized.                                    *)
C27_Witness ==
  /\ call.op = "resolve_static_call_or_null"
  /\ returned.exc = EXC_none
  /\ returned.info.selected_method # NULL
  /\ method_holder(returned.info.selected_method) \in InitKlasses
  /\ init_state[method_holder(returned.info.selected_method)] = linked

----------------------------------------------------------------------------
(* Claims on lookup_instance_method_in_klasses, checked under SpecLookup.  *)

(* The klasses from k up its superclass chain, k first.                    *)
RECURSIVE SuperChain(_)
SuperChain(k) == IF k = NULL THEN << >> ELSE <<k>> \o SuperChain(super(k))

(* The methods of the name and signature of the call that the klasses of   *)
(* the resolved klass's superclass chain declare, in the order of the      *)
(* chain.                                                                  *)
MatchesOnChain ==
  SelectSeq([i \in 1..Len(SuperChain(call.resolved_klass)) |->
               find_method(SuperChain(call.resolved_klass)[i], call.name, call.signature)],
            LAMBDA m : m # NULL)

(* The first of them that is not static, or NULL.                          *)
FirstInstanceMatch ==
  Only({ IF instance = << >> THEN NULL ELSE Head(instance) :
         instance \in {SelectSeq(MatchesOnChain, LAMBDA m : ~is_static(m))} })

(* C28, as stated: lookup_instance_method_in_klasses returns the first     *)
(* method along the superclass chain that is not static, and no method     *)
(* when every match on the chain is static, a static method of             *)
(* java.lang.Object included.                                              *)
C28_AsStated ==
  call.op = "lookup_instance_method_in_klasses" =>
    /\ returned.exc = EXC_none
    /\ returned.info.resolved_method = FirstInstanceMatch

(* Every match on the chain is static and the last of them is declared by  *)
(* java.lang.Object: the walk has read the superclass of Object.           *)
C28_Witness ==
  /\ call.op = "lookup_instance_method_in_klasses"
  /\ MatchesOnChain # << >>
  /\ FirstInstanceMatch = NULL
  /\ method_holder(MatchesOnChain[Len(MatchesOnChain)]) = "Object"
  /\ returned.exc = VMCrash

----------------------------------------------------------------------------
(* Claims on the dependency list, checked under SpecDependencies.          *)

RECURSIVE LoadersFrom(_, _)
(* The loaders of the list from node n on, in the order of the list; the   *)
(* empty first element of the initial head is no entry.                    *)
LoadersFrom(list, n) ==
  IF n = NoNode THEN << >>
  ELSE (IF list[n].class_loader = NULL THEN << >> ELSE <<list[n].class_loader>>)
         \o LoadersFrom(list, list[n].next)

(* The entries of the dependency list, now and after the step.             *)
Entries == LoadersFrom(dep_list, list_head)
EntriesAfter == LoadersFrom(dep_list', list_head)

(* No loader is entered twice.                                             *)
EachAtMostOnce == \A i, j \in 1..Len(Entries) : Entries[i] = Entries[j] => i = j

(* Every dependency whose add returned is in the list.                     *)
ReturnedAreEntered == \A d \in dep_calls.returned : \E i \in 1..Len(Entries) : Entries[i] = d

(* The entries stay where they are: the list grows at its end only.        *)
EntriesKept ==
  /\ Len(EntriesAfter) >= Len(Entries)
  /\ SubSeq(EntriesAfter, 1, Len(Entries)) = Entries

(* C30, as stated: under every interleaving of add calls on one loader the *)
(* list holds each dependency at most once and every dependency whose add  *)
(* returned, and no entry is removed, moved or overwritten.                *)
C30_AsStated ==
  [](EachAtMostOnce /\ ReturnedAreEntered) /\ [][EntriesKept]_vars

(* A loader is in the list twice.                                          *)
C30_Witness ==
  \E i, j \in 1..Len(Entries) : i # j /\ Entries[i] = Entries[j]

----------------------------------------------------------------------------
(* Claims on invokedynamic call sites, checked under SpecIndy.             *)

(* The up-call of thread t returned with a pending exception.              *)
BootstrapFailed(t) == thread[t].invoked > 0 /\ thread[t].answered # EXC_none

(* C18: when the up-call to the bootstrap method leaves an exception       *)
(* pending, resolve_dynamic_call returns with an exception pending and no  *)
(* CallInfo set: the up-call's own throwable if it is a                    *)
(* BootstrapMethodError; if it is another LinkageError, a new              *)
(* BootstrapMethodError whose cause is the up-call's throwable; the        *)
(* up-call's own throwable if it is of any other class.                    *)
C18_BootstrapErrors ==
  \A t \in Threads :
    BootstrapFailed(t) =>
      /\ thread[t].info = NoCallInfo
      /\ thread[t].answered = BootstrapMethodError =>
           /\ thread[t].exc = BootstrapMethodError
           /\ thread[t].pending_oop = THROWN_BY_UPCALL
           /\ thread[t].cause = NULL
      /\ thread[t].answered \in LinkageErrors \ {BootstrapMethodError} =>
           /\ thread[t].exc = BootstrapMethodError
           /\ thread[t].pending_oop = MADE_BY_RESOLVER
           /\ thread[t].cause = THROWN_BY_UPCALL
      /\ thread[t].answered \notin LinkageErrors =>
           /\ thread[t].exc = thread[t].answered
           /\ thread[t].pending_oop = THROWN_BY_UPCALL
           /\ thread[t].cause = NULL

(* One thread's up-call threw a LinkageError that was wrapped while        *)
(* another's threw an exception of another kind that was passed on.        *)
C18_Witness ==
  \E t, u \in Threads :
    /\ BootstrapFailed(t)
    /\ thread[t].answered = IncompatibleClassChangeError
    /\ thread[t].exc = BootstrapMethodError
    /\ thread[t].cause = THROWN_BY_UPCALL
    /\ BootstrapFailed(u)
    /\ thread[u].answered = OutOfMemoryError
    /\ thread[u].exc = OutOfMemoryError

(* Thread t ends its attempt with an exception in this step.               *)
EndsInError(t) ==
  /\ thread[t].pc \notin {"idle", "done"}
  /\ thread'[t].pc = "done"
  /\ thread'[t].exc # EXC_none

(* Thread t, having read the entry of its site as unbound, takes its next  *)
(* step.                                                                   *)
StepsOnUnbound(t) ==
  /\ thread[t].pc = "check_again"
  /\ is_f1_null(f1, thread[t].site)
  /\ thread'[t] # thread[t]

(* C19: a resolution of an invokedynamic site that ends in an exception    *)
(* leaves every call site entry as it was, and a resolution that finds its *)
(* entry unbound goes on to the up-call to the bootstrap method, whatever  *)
(* attempts failed before.                                                 *)
C19_ErrorsAreNotCached ==
  [][\A t \in Threads :
       /\ EndsInError(t) => f1' = f1
       /\ StepsOnUnbound(t) => thread'[t].pc = "bootstrap"]_vars

(* The bootstrap method of a site was called more often than there are     *)
(* threads, the last time with an error, and the site is still unbound:    *)
(* an attempt made after a failed one asked the bootstrap method again.    *)
C19_Witness ==
  \E t \in Threads :
    /\ thread[t].pc = "done"
    /\ thread[t].exc # EXC_none
    /\ thread[t].invoked > 0
    /\ ~thread[t].began_resolved
    /\ is_f1_null(f1, thread[t].site)
    /\ bootstrap_calls[thread[t].site] > NumThreads


(* Thread t is about to make, or has made, the up-call to the bootstrap    *)
(* method in the call it is in.                                            *)
CallsBootstrap(t) == thread[t].pc = "bootstrap" \/ thread[t].invoked > 0

(* C29: a thread in resolve_invokedynamic that goes on to                  *)
(* resolve_dynamic_call holds a resolved bootstrap specifier, and the step *)
(* that makes the up-call is taken with one, however the reads of the      *)
(* entry interleave with the binding of the site by another thread.        *)
C29_SpecifierResolved ==
  /\ [](\A t \in Threads : CallsBootstrap(t) => thread[t].bootstrap_specifier # NULL)
  /\ [][\A t \in Threads :
          thread'[t].invoked > thread[t].invoked => thread[t].bootstrap_specifier # NULL]_vars

(* A thread found the entry unbound at the first read and resolved the     *)
(* specifier, another thread bound the site, and the thread found the      *)
(* entry bound at the second read: it made no up-call.                     *)
C29_Witness ==
  \E t \in Threads :
    /\ thread[t].pc = "publish"
    /\ ~thread[t].began_resolved
    /\ thread[t].bootstrap_specifier # NULL
    /\ thread[t].invoked = 0
    /\ ~is_f1_null(f1, thread[t].site)
    /\ thread[t].info = CallInfoOfEntry(f1[thread[t].site])
====
